---- MODULE Spec2Model ----
(***************************************************************************)
(* Model of the book-review backend's recommendation engines               *)
(* (app/core/recommendations) together with the review and favourite       *)
(* handlers that maintain the store they read.                             *)
(*                                                                         *)
(* Ratings averages are fixed-point hundredths (4.50 is 450), as in the    *)
(* DECIMAL(3,2) column.  A store query whose ORDER BY leaves rows tied may *)
(* return the tied rows in any order: every query operator below yields    *)
(* the SET of lists the store may return.                                  *)
(***************************************************************************)
EXTENDS Integers, Sequences, FiniteSets, TLC

\* ---------------------------------------------------------------- bounds
NumBooks == 2
NumUsers == 2
NumGenres == 2
MaxLimit == 3
MaxDay == 1
MaxRows == 1
MaxCommon == 3
MaxReviews == 3
MaxRateLimit == 2
MaxWindow == 2

\* ------------------------------------------------------ program constants
\* get_popular_books(min_reviews=5)
DefaultMinReviews == 5
\* get_genre_books(min_reviews=1)
DefaultGenreMinReviews == 1
\* get_genre_books(min_rating=0.0)
DefaultMinRating == 0
\* _analyze_user_preferences: .limit(5)
MaxFavoriteGenres == 5
\* Review.rating >= 4
HighRating == 4

\* ids of the books inserted at start-up
BookIds == 1..NumBooks
Users == 1..NumUsers
Genres == 1..NumGenres
Limits == 1..MaxLimit

\* None / falsy argument values (Python tests them with `if genre_id:` etc.)
NoGenre == 0
NoDays == 0
NoUser == 0

\* clock reading of datetime.utcnow(): every book was created before it
Now == MaxDay + 1
DaysBackArgs == 0..(MaxDay + 1)

\* ratings a client submits in the model (the column admits 1..5)
Ratings == {2, 4}

\* seed rows <<average_rating, total_reviews, genres, creation day>>, of the
\* kind seed_data.py and the test fixtures insert; MaxDay is the newest day
RankSeedRows ==
  << <<450, 3, {1}, MaxDay>>, <<400, 15, {1, 2}, MaxDay>>, <<450, 10, {1}, 0>>,
     <<450, 10, {2}, MaxDay>>, <<450, 10, {1}, MaxDay>> >>
SeedRows ==
  << <<450, 3, {1}, MaxDay>>, <<450, 10, {1}, MaxDay>>, <<400, 15, {1, 2}, MaxDay>> >>
MinRatings == {0, 430}
MinReviewsArgs == {1, 5}

VARIABLES avgRating, totalReviews, bookGenres, createdAt, reviews, reviewedAt,
          favorites, resp, requests, limits, granted, sessions

vars == <<avgRating, totalReviews, bookGenres, createdAt, reviews, reviewedAt,
          favorites, resp, requests, limits, granted, sessions>>
catalogue == <<avgRating, totalReviews, bookGenres, createdAt>>
store == <<avgRating, totalReviews, bookGenres, createdAt, reviews, reviewedAt, favorites>>
\* the rate limiter's dictionaries, and the requests it let through
limiter == <<requests, limits, granted>>

\* the rows of the books table
Books == DOMAIN avgRating

NoResp == [op |-> "none"]

\* ---------------------------------------------------------------- helpers
Min(a, b) == IF a <= b THEN a ELSE b
Max(a, b) == IF a >= b THEN a ELSE b
Range(s) == {s[i] : i \in 1..Len(s)}
Take(s, n) == SubSeq(s, 1, Min(n, Len(s)))

RECURSIVE SumOver(_, _)
SumOver(S, f) ==
  IF S = {} THEN 0
  ELSE LET x == CHOOSE y \in S : TRUE IN f[x] + SumOver(S \ {x}, f)

RECURSIVE SumSeq(_)
SumSeq(s) == IF s = <<>> THEN 0 ELSE Head(s) + SumSeq(Tail(s))

\* all orderings of the rows S
Perms(S) ==
  {p \in [1..Cardinality(S) -> S] : \A i, j \in 1..Cardinality(S) : i # j => p[i] # p[j]}

\* ------------------------------------------------- store query execution
\* ORDER BY ... LIMIT n over the rows `rows`, where <<a, b>> \in above says
\* that row a ranks strictly above row b: any ordering in which no row
\* precedes a row that ranks strictly above it, cut to the first n rows.
OrderByLimit(rows, above, n) ==
  {Take(p, n) : p \in {q \in Perms(rows) :
      \A i, j \in 1..Cardinality(rows) : i < j => <<q[j], q[i]>> \notin above}}

\* ------------------------------------------------------------ popular.py
\* popularity_score(a) > popularity_score(b), with
\* popularity_score = (average_rating * total_reviews) / (total_reviews + min_reviews)
\* compared exactly (NUMERIC division) by cross-multiplication.
ScoreNum(b) == avgRating[b] * totalReviews[b]
\* mutant: the review count is left out of the denominator
ScoreDen_NoCount(b, min_reviews) == min_reviews

ScoreDen(b, min_reviews) == totalReviews[b] + min_reviews
ScoreGreater(a, b, min_reviews) ==
  ScoreNum(a) * ScoreDen(b, min_reviews) > ScoreNum(b) * ScoreDen(a, min_reviews)
ScoreEqual(a, b, min_reviews) ==
  ScoreNum(a) * ScoreDen(b, min_reviews) = ScoreNum(b) * ScoreDen(a, min_reviews)

\* mutant: ordered by average_rating and total_reviews only
PopularAbove_ByRating(a, b, min_reviews) ==
  \/ avgRating[a] > avgRating[b]
  \/ avgRating[a] = avgRating[b] /\ totalReviews[a] > totalReviews[b]

\* order_by(desc('popularity_score'), desc(Book.average_rating), desc(Book.total_reviews))
PopularAbove(a, b, min_reviews) ==
  \/ ScoreGreater(a, b, min_reviews)
  \/ /\ ScoreEqual(a, b, min_reviews)
     /\ \/ avgRating[a] > avgRating[b]
        \/ avgRating[a] = avgRating[b] /\ totalReviews[a] > totalReviews[b]

\* mutant: the min_reviews filter is left out
PopularEligible_NoMinReviews(genre_id, min_reviews, days_back) ==
  {b \in Books :
     /\ (genre_id # NoGenre => genre_id \in bookGenres[b])
     /\ (days_back # NoDays => createdAt[b] >= Now - days_back)}

PopularEligible(genre_id, min_reviews, days_back) ==
  {b \in Books :
     /\ totalReviews[b] >= min_reviews
     /\ (genre_id # NoGenre => genre_id \in bookGenres[b])
     /\ (days_back # NoDays => createdAt[b] >= Now - days_back)}

GetPopularBooks(limit, genre_id, min_reviews, days_back) ==
  LET rows == PopularEligible(genre_id, min_reviews, days_back)
  IN OrderByLimit(rows, {ab \in rows \X rows : PopularAbove(ab[1], ab[2], min_reviews)}, limit)

\* -------------------------------------------------------------- genre.py
\* books the user has reviewed or favorited
ReviewedBooks(u) == {b \in Books : reviews[u][b] # 0}
FavoritedBooks(u) == {b \in Books : <<u, b>> \in favorites}

\* mutant: the created_at tie-break is left out
GenreAbove_NoCreatedAt(a, b) ==
  \/ avgRating[a] > avgRating[b]
  \/ avgRating[a] = avgRating[b] /\ totalReviews[a] > totalReviews[b]

\* order_by(desc(average_rating), desc(total_reviews), desc(created_at))
GenreAbove(a, b) ==
  \/ avgRating[a] > avgRating[b]
  \/ /\ avgRating[a] = avgRating[b]
     /\ \/ totalReviews[a] > totalReviews[b]
        \/ totalReviews[a] = totalReviews[b] /\ createdAt[a] > createdAt[b]

GenreEligible(genre_id, exclude_user_id, min_rating, min_reviews) ==
  {b \in Books :
     /\ genre_id \in bookGenres[b]
     /\ avgRating[b] >= min_rating
     /\ totalReviews[b] >= min_reviews
     /\ (exclude_user_id # NoUser =>
           b \notin ReviewedBooks(exclude_user_id) /\ b \notin FavoritedBooks(exclude_user_id))}

GetGenreBooks(genre_id, limit, exclude_user_id, min_rating, min_reviews) ==
  LET rows == GenreEligible(genre_id, exclude_user_id, min_rating, min_reviews)
  IN OrderByLimit(rows, {ab \in rows \X rows : GenreAbove(ab[1], ab[2])}, limit)

\* genre_limit of the genre at 0-based position i among n preferred genres
GenreLimit(i, n, limit) ==
  Max(1, limit \div n) + (IF i < limit % n THEN 1 ELSE 0)

\* mutant: the duplicate check is skipped
Unique_KeepAll(s, seen) == s

\* "Remove duplicates while preserving order"
RECURSIVE Unique(_, _)
Unique(s, seen) ==
  IF s = <<>> THEN <<>>
  ELSE IF Head(s) \in seen THEN Unique(Tail(s), seen)
       ELSE <<Head(s)>> \o Unique(Tail(s), seen \cup {Head(s)})

\* all_recommendations after the loop has handled positions i..n of
\* preferred_genres: one list per choice of the per-genre query results
RECURSIVE AllRecommendations(_, _, _, _)
AllRecommendations(preferred_genres, i, limit, exclude_user_id) ==
  IF i > Len(preferred_genres) THEN {<<>>}
  ELSE {g \o rest :
          g \in GetGenreBooks(preferred_genres[i],
                              GenreLimit(i - 1, Len(preferred_genres), limit),
                              exclude_user_id, DefaultMinRating, DefaultGenreMinReviews),
          rest \in AllRecommendations(preferred_genres, i + 1, limit, exclude_user_id)}

\* the result list for one concatenation `all` of the per-genre results
DiversityResult(all, limit) == Take(Unique(all, {}), limit)

\* the runs of get_genre_diversity_recommendations: the limits it passes to
\* get_genre_books, all_recommendations and the returned list
GenreDiversityRuns(preferred_genres, limit, exclude_user_id) ==
  IF preferred_genres = <<>>
  THEN {[genre_limits |-> <<>>, all |-> <<>>, books |-> <<>>]}
  ELSE {[genre_limits |-> [i \in 1..Len(preferred_genres) |->
                             GenreLimit(i - 1, Len(preferred_genres), limit)],
         all |-> all,
         books |-> DiversityResult(all, limit)] :
          all \in AllRecommendations(preferred_genres, 1, limit, exclude_user_id)}

GetGenreDiversityRecommendations(preferred_genres, limit, exclude_user_id) ==
  {run.books : run \in GenreDiversityRuns(preferred_genres, limit, exclude_user_id)}

\* ----------------------------------------- similar and trending rankers
\* a book_id that names no stored book
NoBook == 0

\* get_similar_genre_books: "Get the genres of the given book"
SourceGenres(book_id) == IF book_id \in Books THEN bookGenres[book_id] ELSE {}

\* mutant: the user's favorited books are not excluded
SimilarEligible_ReviewedOnly(book_id, exclude_user_id) ==
  {b \in Books :
     /\ b # book_id
     /\ bookGenres[b] \cap SourceGenres(book_id) # {}
     /\ (exclude_user_id # NoUser => b \notin ReviewedBooks(exclude_user_id))}

\* mutant: the source book is not excluded
SimilarEligible_WithSource(book_id, exclude_user_id) ==
  {b \in Books :
     /\ bookGenres[b] \cap SourceGenres(book_id) # {}
     /\ (exclude_user_id # NoUser =>
           b \notin ReviewedBooks(exclude_user_id) /\ b \notin FavoritedBooks(exclude_user_id))}

SimilarEligible(book_id, exclude_user_id) ==
  {b \in Books :
     /\ b # book_id
     /\ bookGenres[b] \cap SourceGenres(book_id) # {}
     /\ (exclude_user_id # NoUser =>
           b \notin ReviewedBooks(exclude_user_id) /\ b \notin FavoritedBooks(exclude_user_id))}

\* order_by(desc(Book.average_rating), desc(Book.total_reviews))
SimilarAbove(a, b) ==
  \/ avgRating[a] > avgRating[b]
  \/ avgRating[a] = avgRating[b] /\ totalReviews[a] > totalReviews[b]

GetSimilarGenreBooks(book_id, limit, exclude_user_id) ==
  LET rows == SimilarEligible(book_id, exclude_user_id)
  IN OrderByLimit(rows, {ab \in rows \X rows : SimilarAbove(ab[1], ab[2])}, limit)

\* get_trending_books: the reviews of b created at or after the cutoff
RecentReviewers(b, days_back) ==
  {u \in Users : reviews[u][b] # 0 /\ reviewedAt[u][b] >= Now - days_back}
RecentReviews(b, days_back) == Cardinality(RecentReviewers(b, days_back))
RecentRatingSum(b, days_back) ==
  SumOver(RecentReviewers(b, days_back), [u \in Users |-> reviews[u][b]])

\* mutant: reviews of any age are counted
TrendingEligible_AllTime(days_back, min_reviews_in_period) ==
  {b \in Books :
     /\ Cardinality({u \in Users : reviews[u][b] # 0}) >= 1
     /\ Cardinality({u \in Users : reviews[u][b] # 0}) >= min_reviews_in_period}

\* group_by(Review.book_id).having(count >= min_reviews_in_period), joined to books
TrendingEligible(days_back, min_reviews_in_period) ==
  {b \in Books :
     /\ RecentReviews(b, days_back) >= 1
     /\ RecentReviews(b, days_back) >= min_reviews_in_period}

RECURSIVE Pow(_, _)
Pow(x, k) == IF k = 0 THEN 1 ELSE x * Pow(x, k - 1)

\* trending_score = recent_avg_rating * log(recent_reviews + 1): with the
\* averages s/n and t/m, s/n * log(n + 1) > t/m * log(m + 1) exactly when
\* (n + 1)^(s * m) > (m + 1)^(t * n)
TrendingScoreGreater(a, b, days_back) ==
  Pow(RecentReviews(a, days_back) + 1,
      RecentRatingSum(a, days_back) * RecentReviews(b, days_back))
    > Pow(RecentReviews(b, days_back) + 1,
          RecentRatingSum(b, days_back) * RecentReviews(a, days_back))
TrendingScoreEqual(a, b, days_back) ==
  Pow(RecentReviews(a, days_back) + 1,
      RecentRatingSum(a, days_back) * RecentReviews(b, days_back))
    = Pow(RecentReviews(b, days_back) + 1,
          RecentRatingSum(b, days_back) * RecentReviews(a, days_back))

\* order_by(desc('trending_score'), desc(recent_avg_rating))
TrendingAbove(a, b, days_back) ==
  \/ TrendingScoreGreater(a, b, days_back)
  \/ /\ TrendingScoreEqual(a, b, days_back)
     /\ RecentRatingSum(a, days_back) * RecentReviews(b, days_back)
          > RecentRatingSum(b, days_back) * RecentReviews(a, days_back)

GetTrendingBooks(limit, days_back, min_reviews_in_period) ==
  LET rows == TrendingEligible(days_back, min_reviews_in_period)
  IN OrderByLimit(rows, {ab \in rows \X rows : TrendingAbove(ab[1], ab[2], days_back)},
                  limit)

\* ----------------------------------------------------------- personal.py
\* _analyze_user_preferences: the user's reviews with rating >= 4, joined to
\* the genres of the reviewed book and grouped by genre
\* mutant: reviews of any rating count towards the preferences
LikedInGenre_AnyRating(u, g) == {b \in Books : reviews[u][b] # 0 /\ g \in bookGenres[b]}

LikedInGenre(u, g) == {b \in Books : reviews[u][b] >= HighRating /\ g \in bookGenres[b]}
\* one row per genre of the join: the genres attached to some liked book
GenrePreferenceRows(u) ==
  {g \in UNION {bookGenres[b] : b \in Books} : LikedInGenre(u, g) # {}}
GenreRatingSum(u, g) == SumOver(LikedInGenre(u, g), reviews[u])
GenreReviewCount(u, g) == Cardinality(LikedInGenre(u, g))

\* order_by(desc('avg_rating'), desc('review_count'))
PreferenceAbove(u, g, h) ==
  \/ GenreRatingSum(u, g) * GenreReviewCount(u, h) > GenreRatingSum(u, h) * GenreReviewCount(u, g)
  \/ /\ GenreRatingSum(u, g) * GenreReviewCount(u, h) = GenreRatingSum(u, h) * GenreReviewCount(u, g)
     /\ GenreReviewCount(u, g) > GenreReviewCount(u, h)

\* favorite_genres: the lists .limit(5).all() may return
FavoriteGenres(u) ==
  LET rows == GenrePreferenceRows(u)
  IN OrderByLimit(rows, {gh \in rows \X rows : PreferenceAbove(u, gh[1], gh[2])},
                  MaxFavoriteGenres)

\* mutant: has_activity taken from the overall review count with >= 0
HasActivity_FromStats(u) == Cardinality(ReviewedBooks(u)) >= 0

\* has_activity = len(genre_preferences) > 0
HasActivity(u) == GenrePreferenceRows(u) # {}

\* _get_user_excluded_books
UserExcludedBooks(u) == ReviewedBooks(u) \cup FavoritedBooks(u)

\* _get_genre_based_recommendations
GenreBasedRecommendations(favorite_genres, excluded_books, limit) ==
  IF favorite_genres = <<>> THEN {<<>>}
  ELSE LET Keep(b) == b \notin excluded_books
       IN {Take(SelectSeq(r, Keep), limit) :
             r \in GetGenreDiversityRecommendations(favorite_genres, limit, NoUser)}

\* the loop "for book in popular_books" of get_personal_recommendations
FilterExcluded(popular_books, excluded_books, limit) ==
  LET Keep(b) == b \notin excluded_books
  IN Take(SelectSeq(popular_books, Keep), limit)

\* "if len(recommendations) < limit: recommendations.extend(popular_books[:limit - len])"
PadRecommendations(recommendations, popular_books, limit) ==
  IF Len(recommendations) < limit
  THEN recommendations \o Take(popular_books, limit - Len(recommendations))
  ELSE recommendations

\* mutant: the except-handler labels its response 'personal'
FallbackResponse_Mislabelled(steps, popular_books, fallbackFails) ==
  IF fallbackFails
  THEN [status |-> "raised", type |-> "none", explanation |-> "none", books |-> <<>>,
        steps |-> steps \o <<"fallback_popular">>,
        failed |-> {steps[Len(steps)], "fallback_popular"}]
  ELSE [status |-> "returned", type |-> "personal", explanation |-> "fallback",
        books |-> popular_books,
        steps |-> steps \o <<"fallback_popular">>, failed |-> {steps[Len(steps)]}]

\* an except-handler of get_personal_recommendations: one more popularity
\* lookup, outside any try block
FallbackResponse(steps, popular_books, fallbackFails) ==
  IF fallbackFails
  THEN [status |-> "raised", type |-> "none", explanation |-> "none", books |-> <<>>,
        steps |-> steps \o <<"fallback_popular">>,
        failed |-> {steps[Len(steps)], "fallback_popular"}]
  ELSE [status |-> "returned", type |-> "popular", explanation |-> "fallback",
        books |-> popular_books,
        steps |-> steps \o <<"fallback_popular">>, failed |-> {steps[Len(steps)]}]

\* get_personal_recommendations.  valid: user_id parses as a UUID; failAt: the
\* store step that raises ("none" when all succeed); fallbackFails: whether
\* the lookup in an except-handler raises; popular_books: the list the one
\* successful get_popular_books(limit=limit) call of this run returns.
\* steps lists the steps entered, failed the steps that raised.
GetPersonalRecommendations(valid, u, limit, failAt, fallbackFails, popular_books) ==
  IF ~valid
  THEN FallbackResponse(<<"uuid">>, popular_books, fallbackFails)
  ELSE IF failAt = "profile"
  THEN FallbackResponse(<<"uuid", "profile">>, popular_books, fallbackFails)
  ELSE IF ~HasActivity(u)
  THEN IF failAt = "popular"
       THEN [status |-> "raised", type |-> "none", explanation |-> "none", books |-> <<>>,
             steps |-> <<"uuid", "profile", "popular">>, failed |-> {"popular"}]
       ELSE [status |-> "returned", type |-> "popular", explanation |-> "new",
             books |-> popular_books,
             steps |-> <<"uuid", "profile", "popular">>, failed |-> {}]
  ELSE IF failAt = "excluded"
  THEN FallbackResponse(<<"uuid", "profile", "excluded">>, popular_books, fallbackFails)
  ELSE IF failAt = "popular"
  THEN FallbackResponse(<<"uuid", "profile", "excluded", "popular">>,
                        popular_books, fallbackFails)
  ELSE [status |-> "returned", type |-> "personal", explanation |-> "personal",
        books |-> Take(PadRecommendations(
                         FilterExcluded(popular_books, UserExcludedBooks(u), limit),
                         popular_books, limit), limit),
        steps |-> <<"uuid", "profile", "excluded", "popular", "filter">>,
        failed |-> {}]

\* ------------------------------------------- binary floating point (float)
\* A float is <<m, e>>, standing for m * 2^e, with |m| <= 2^Precision.  Every
\* operation returns the exact result rounded to Precision significant bits,
\* ties to even, as IEEE 754 arithmetic does.  CPython's float has 53 bits;
\* the arithmetic below is evaluated at 11 bits (odd, like 53, so that thirds
\* round to the same side).
Precision == 11

\* number of bits of the positive integer x
Bits(x) == CHOOSE k \in 1..30 : Pow(2, k - 1) <= x /\ x < Pow(2, k)
Abs(x) == IF x < 0 THEN 0 - x ELSE x
Sign(x) == IF x < 0 THEN 0 - 1 ELSE 1

\* q + 1 or q: the integer nearest to q + r/d (0 <= r < d), ties to even
RoundNearestEven(q, r, d) ==
  IF 2 * r > d \/ (2 * r = d /\ q % 2 = 1) THEN q + 1 ELSE q

\* the float nearest to (n / d) * 2^e, for integers n and d > 0
RoundRat(n, d, e) ==
  IF n = 0 THEN <<0, 0>>
  ELSE LET a == Abs(n)
           \* a * 2^k / d has Precision or Precision + 1 bits
           k0 == Precision - (Bits(a) - Bits(d))
           Scaled(k) == IF k >= 0 THEN <<a * Pow(2, k), d>> ELSE <<a, d * Pow(2, 0 - k)>>
           k == IF Scaled(k0)[1] \div Scaled(k0)[2] >= Pow(2, Precision) THEN k0 - 1 ELSE k0
           num == Scaled(k)[1]
           den == Scaled(k)[2]
       IN <<Sign(n) * RoundNearestEven(num \div den, num % den, den), e - k>>

\* int / int ("true division"), float - float, float * float, float / float
FloatOfInt(i) == <<i, 0>>
IntTrueDiv(n, d) == RoundRat(n, d, 0)
FloatSub(x, y) ==
  LET e == IF x[2] <= y[2] THEN x[2] ELSE y[2]
  IN RoundRat(x[1] * Pow(2, x[2] - e) - y[1] * Pow(2, y[2] - e), 1, e)
FloatAdd(x, y) == FloatSub(x, <<0 - y[1], y[2]>>)
FloatMul(x, y) == RoundRat(x[1] * y[1], 1, x[2] + y[2])
FloatDiv(x, y) == RoundRat(Sign(y[1]) * x[1], Abs(y[1]), x[2] - y[2])

\* x ** 0.5 for a float x >= 0: the float nearest to the square root
FloatSqrt(x) ==
  IF x[1] = 0 THEN <<0, 0>>
  ELSE LET j0 == 2 * Precision - Bits(x[1])
           \* t = m * 2^j has 2 * Precision - 1 or 2 * Precision bits, e - j even
           j == IF (x[2] - j0) % 2 = 0 THEN j0 ELSE j0 - 1
           t == x[1] * Pow(2, j)
           r == CHOOSE s \in Pow(2, Precision - 1)..Pow(2, Precision) :
                  s * s <= t /\ t < (s + 1) * (s + 1)
       IN <<IF t > r * r + r THEN r + 1 ELSE r, (x[2] - j) \div 2>>

\* comparisons of a float with an integer i
FloatLess(x, i) ==
  IF x[2] >= 0 THEN x[1] * Pow(2, x[2]) < i ELSE x[1] < i * Pow(2, 0 - x[2])
FloatGreater(x, i) ==
  IF x[2] >= 0 THEN x[1] * Pow(2, x[2]) > i ELSE x[1] > i * Pow(2, 0 - x[2])

\* --------------------------------------- personal.py: user similarity
\* mutant: three common books are required
TooFewCommonBooks_Three(n) == n < 3

\* "if len(common_books) < 2"
TooFewCommonBooks(n) == n < 2

\* mutant: the numerator subtracts sum1 * sum1 / n
GetUserSimilarityScore_OwnSum(rv, user1, user2) ==
  LET common_books == {b \in DOMAIN rv[user1] : rv[user1][b] # 0 /\ rv[user2][b] # 0}
      n == Cardinality(common_books)
      sum1 == SumOver(common_books, rv[user1])
      sum2 == SumOver(common_books, rv[user2])
      sum1_sq == SumOver(common_books, [b \in common_books |-> rv[user1][b] * rv[user1][b]])
      sum2_sq == SumOver(common_books, [b \in common_books |-> rv[user2][b] * rv[user2][b]])
      sum_products ==
        SumOver(common_books, [b \in common_books |-> rv[user1][b] * rv[user2][b]])
      numerator == FloatSub(FloatOfInt(sum_products), IntTrueDiv(sum1 * sum1, n))
      denominator ==
        FloatSqrt(FloatMul(FloatSub(FloatOfInt(sum1_sq), IntTrueDiv(sum1 * sum1, n)),
                           FloatSub(FloatOfInt(sum2_sq), IntTrueDiv(sum2 * sum2, n))))
      correlation == FloatDiv(numerator, denominator)
      similarity == FloatAdd(correlation, FloatOfInt(1))
  IN IF TooFewCommonBooks(n)
     THEN [score |-> <<0, 0>>, returned_at |-> "common_books"]
     ELSE IF denominator[1] = 0
     THEN [score |-> <<0, 0>>, returned_at |-> "denominator"]
     ELSE [score |-> IF similarity[1] = 0 THEN <<0, 0>>
                     ELSE <<similarity[1], similarity[2] - 1>>,
           returned_at |-> "correlation"]

\* get_user_similarity_score on the review rows rv: the value returned and
\* the return statement that produced it
GetUserSimilarityScore(rv, user1, user2) ==
  LET common_books == {b \in DOMAIN rv[user1] : rv[user1][b] # 0 /\ rv[user2][b] # 0}
      n == Cardinality(common_books)
      sum1 == SumOver(common_books, rv[user1])
      sum2 == SumOver(common_books, rv[user2])
      sum1_sq == SumOver(common_books, [b \in common_books |-> rv[user1][b] * rv[user1][b]])
      sum2_sq == SumOver(common_books, [b \in common_books |-> rv[user2][b] * rv[user2][b]])
      sum_products ==
        SumOver(common_books, [b \in common_books |-> rv[user1][b] * rv[user2][b]])
      numerator == FloatSub(FloatOfInt(sum_products), IntTrueDiv(sum1 * sum2, n))
      denominator ==
        FloatSqrt(FloatMul(FloatSub(FloatOfInt(sum1_sq), IntTrueDiv(sum1 * sum1, n)),
                           FloatSub(FloatOfInt(sum2_sq), IntTrueDiv(sum2 * sum2, n))))
      correlation == FloatDiv(numerator, denominator)
      similarity == FloatAdd(correlation, FloatOfInt(1))
  IN IF TooFewCommonBooks(n)
     THEN [score |-> <<0, 0>>, returned_at |-> "common_books"]
     ELSE IF denominator[1] = 0
     THEN [score |-> <<0, 0>>, returned_at |-> "denominator"]
     ELSE [score |-> IF similarity[1] = 0 THEN <<0, 0>>
                     ELSE <<similarity[1], similarity[2] - 1>>,
           returned_at |-> "correlation"]

\* ------------------------------- personal.py: collaborative recommendations
\* similar_users: .limit(10)
MaxNeighbours == 10

\* the books user u has a review of
UserRatedBooks(rv, u) == {b \in DOMAIN rv[u] : rv[u][b] # 0}
\* common_books_count and the sum behind avg_rating of user v's reviews of the
\* books user_id reviewed
CommonBooks(rv, user_id, v) == UserRatedBooks(rv, user_id) \cap UserRatedBooks(rv, v)
CommonBooksCount(rv, user_id, v) == Cardinality(CommonBooks(rv, user_id, v))
CommonRatingSum(rv, user_id, v) == SumOver(CommonBooks(rv, user_id, v), rv[v])

\* group_by(Review.user_id).having(count >= 2), without the requesting user
NeighbourRows(rv, user_id) ==
  {v \in (DOMAIN rv) \ {user_id} : CommonBooksCount(rv, user_id, v) >= 2}

\* order_by(desc('common_books_count'), desc('avg_rating'))
NeighbourAbove(rv, user_id, v, w) ==
  \/ CommonBooksCount(rv, user_id, v) > CommonBooksCount(rv, user_id, w)
  \/ /\ CommonBooksCount(rv, user_id, v) = CommonBooksCount(rv, user_id, w)
     /\ CommonRatingSum(rv, user_id, v) * CommonBooksCount(rv, user_id, w)
          > CommonRatingSum(rv, user_id, w) * CommonBooksCount(rv, user_id, v)

\* similar_user_ids: the sets of users .limit(10).all() may return (only the
\* set is used afterwards): as many rows as the limit allows, none of them
\* ranked strictly below a row left out
SimilarUsers(rv, user_id) ==
  LET rows == NeighbourRows(rv, user_id)
  IN {S \in SUBSET rows :
        /\ Cardinality(S) = Min(MaxNeighbours, Cardinality(rows))
        /\ \A v \in rows \ S, w \in S : ~NeighbourAbove(rv, user_id, v, w)}

\* the reviews with rating >= 4 of book b by the similar users
Endorsers(rv, similar_user_ids, b) == {v \in similar_user_ids : rv[v][b] >= HighRating}
EndorsementSum(rv, similar_user_ids, b) ==
  SumOver(Endorsers(rv, similar_user_ids, b), [v \in DOMAIN rv |-> rv[v][b]])

\* mutant: one endorsement is enough
CollaborativeRows_OneEndorser(rv, similar_user_ids, excluded_books) ==
  {b \in Books : /\ b \notin excluded_books
                 /\ Cardinality(Endorsers(rv, similar_user_ids, b)) >= 1}

\* group_by(Book.id).having(count >= 2), after the exclusion filter
CollaborativeRows(rv, similar_user_ids, excluded_books) ==
  {b \in Books : /\ b \notin excluded_books
                 /\ Cardinality(Endorsers(rv, similar_user_ids, b)) >= 2}

\* order_by(desc('similar_user_rating'), desc('similar_user_count'),
\*          desc(Book.average_rating))
CollaborativeAbove(rv, S, a, b) ==
  LET sa == EndorsementSum(rv, S, a)
      sb == EndorsementSum(rv, S, b)
      ca == Cardinality(Endorsers(rv, S, a))
      cb == Cardinality(Endorsers(rv, S, b))
  IN \/ sa * cb > sb * ca
     \/ /\ sa * cb = sb * ca
        /\ \/ ca > cb
           \/ ca = cb /\ avgRating[a] > avgRating[b]

\* _get_collaborative_recommendations: the runs it can make, each with the
\* similar users it used and the list it returned
CollaborativeRuns(rv, user_id, excluded_books, limit) ==
  IF UserRatedBooks(rv, user_id) = {}
  THEN {[similar_users |-> {}, books |-> <<>>]}
  ELSE UNION {
         IF S = {} THEN {[similar_users |-> {}, books |-> <<>>]}
         ELSE LET rows == CollaborativeRows(rv, S, excluded_books)
              IN {[similar_users |-> S, books |-> books] :
                    books \in OrderByLimit(rows,
                                {ab \in rows \X rows : CollaborativeAbove(rv, S, ab[1], ab[2])},
                                limit)} :
         S \in SimilarUsers(rv, user_id)}

\* --------------------------------------------------- rating_calculator.py
ReviewersOf(rv, b) == {u \in DOMAIN rv : rv[u][b] # 0}
RatingSum(rv, b) == SumOver(ReviewersOf(rv, b), [u \in DOMAIN rv |-> rv[u][b]])

\* mutant: the average is cut to 2 decimals instead of rounded
RoundHundredths_Truncated(num, den) == (100 * num) \div den

\* round(avg, 2) of the mean num/den, in hundredths, ties to even
RoundHundredths(num, den) ==
  LET q == (100 * num) \div den
      r == (100 * num) % den
  IN IF 2 * r > den \/ (2 * r = den /\ q % 2 = 1) THEN q + 1 ELSE q

\* update_book_rating: the aggregates it stores for book b given reviews rv
NewAverageRating(rv, b) ==
  IF ReviewersOf(rv, b) = {} THEN 0
  ELSE RoundHundredths(RatingSum(rv, b), Cardinality(ReviewersOf(rv, b)))
NewTotalReviews(rv, b) == Cardinality(ReviewersOf(rv, b))

\* ------------------------------------------------ middleware/rate_limit.py
\* Time is kept as the age of each recorded request, time.time() minus the
\* recorded timestamp, in whole seconds; an age above every window in use is
\* kept as OldAge.  limits keeps (limit, window_seconds) per identifier; the
\* reset_time stored beside them is read by get_limit_info only.
OldAge == MaxWindow + 1
\* no entry in self.limits
NoLimit == <<>>
\* the identifier handed to is_allowed by the rate limiting test
LimiterIds == {"test_user"}
LimitArgs == 1..MaxRateLimit
WindowArgs == 1..MaxWindow
\* denied calls since the last allowed one are counted up to this number
ManyDenied == 2

\* "while request_times and request_times[0] < window_start: popleft()"
RECURSIVE DropExpired(_, _)
DropExpired(request_times, window_seconds) ==
  IF request_times # <<>> /\ Head(request_times) > window_seconds
  THEN DropExpired(Tail(request_times), window_seconds)
  ELSE request_times

\* mutant: a denied call is recorded too
DeniedResult_Recorded(kept, reset_in) ==
  [allowed |-> FALSE, remaining |-> 0, reset_in |-> reset_in,
   request_times |-> kept \o <<0>>]

\* "if current_requests >= limit: ... return False, 0, reset_time": nothing
\* is appended to the deque
DeniedResult(kept, reset_in) ==
  [allowed |-> FALSE, remaining |-> 0, reset_in |-> reset_in,
   request_times |-> kept]

\* mutant: the limit is compared with > instead of >=
IsAllowedResult_OneMore(request_times, limit, window_seconds) ==
  LET kept == DropExpired(request_times, window_seconds)
      reset_in == IF kept # <<>> THEN window_seconds - Head(kept) ELSE window_seconds
  IN IF Len(kept) > limit
     THEN DeniedResult(kept, reset_in)
     ELSE [allowed |-> TRUE, remaining |-> limit - (Len(kept) + 1), reset_in |-> reset_in,
           request_times |-> kept \o <<0>>]

\* InMemoryRateLimiter.is_allowed on the deque request_times: the tuple it
\* returns (reset_time as seconds from now) and the deque it leaves
IsAllowedResult(request_times, limit, window_seconds) ==
  LET kept == DropExpired(request_times, window_seconds)
      reset_in == IF kept # <<>> THEN window_seconds - Head(kept) ELSE window_seconds
  IN IF Len(kept) >= limit
     THEN DeniedResult(kept, reset_in)
     ELSE [allowed |-> TRUE, remaining |-> limit - (Len(kept) + 1), reset_in |-> reset_in,
           request_times |-> kept \o <<0>>]

\* the record g of the requests let through, after a call for `identifier`
\* made on behalf of a request for `path`
GrantedAfter(g, identifier, path, allowed) ==
  [g EXCEPT ![identifier] =
     IF allowed
     THEN [times |-> g[identifier].times \o << <<0, path>> >>, denied |-> 0]
     ELSE [times |-> g[identifier].times,
           denied |-> Min(ManyDenied, g[identifier].denied + 1)]]

\* the limiter after is_allowed(identifier, limit, window_seconds) returned result
LimiterAfter(identifier, path, limit, window_seconds, result) ==
  /\ requests' = [requests EXCEPT ![identifier] = result.request_times]
  /\ limits' = [limits EXCEPT ![identifier] = <<limit, window_seconds>>]
  /\ granted' = GrantedAfter(granted, identifier, path, result.allowed)

\* a direct call of is_allowed, with the limit and window this identifier is
\* always called with
IsAllowed(identifier) ==
  /\ resp = NoResp
  /\ \E limit \in LimitArgs, window_seconds \in WindowArgs :
       /\ limits[identifier] \in {NoLimit, <<limit, window_seconds>>}
       /\ LET result == IsAllowedResult(requests[identifier], limit, window_seconds)
          IN /\ LimiterAfter(identifier, "", limit, window_seconds, result)
             /\ resp' = [op |-> "is_allowed", identifier |-> identifier, limit |-> limit,
                         window_seconds |-> window_seconds, allowed |-> result.allowed,
                         remaining |-> result.remaining, reset_in |-> result.reset_in,
                         denied_before |-> granted[identifier].denied]
  /\ UNCHANGED <<store, sessions>>

\* one second passes
Tick ==
  /\ requests' = [id \in DOMAIN requests |->
                    [i \in 1..Len(requests[id]) |-> Min(OldAge, requests[id][i] + 1)]]
  /\ granted' = [id \in DOMAIN granted |->
                   LET InWindow(e) == e[1] < MaxWindow
                       Older(e) == <<e[1] + 1, e[2]>>
                       aged == SelectSeq(granted[id].times, InWindow)
                   IN [times |-> [i \in 1..Len(aged) |-> Older(aged[i])],
                       denied |-> granted[id].denied]]
  /\ UNCHANGED <<store, resp, limits, sessions>>

\* the number of leading entries of a deque that are older than every window
RECURSIVE OldEntries(_)
OldEntries(request_times) ==
  IF request_times # <<>> /\ Head(request_times) = OldAge
  THEN 1 + OldEntries(Tail(request_times))
  ELSE 0

\* no deque grows beyond the largest limit in use
MaxEntries == MaxRateLimit + 1

\* cleanup_expired(max_age_seconds) with max_age_seconds above every window:
\* the drop[id] oldest entries of each deque, all of them old, are older than
\* max_age_seconds and are removed, and an identifier left without entries
\* is deleted
CleanupExpired(drop) ==
  [requests |-> [id \in DOMAIN requests |->
                   SubSeq(requests[id], drop[id] + 1, Len(requests[id]))],
   limits |-> [id \in DOMAIN limits |->
                 IF drop[id] = Len(requests[id]) THEN NoLimit ELSE limits[id]]]

\* the numbers of entries that a cleanup running now may find older than
\* max_age_seconds
Droppable ==
  {drop \in [DOMAIN requests -> 0..MaxEntries] :
     \A id \in DOMAIN requests : drop[id] <= OldEntries(requests[id])}

\* a call of cleanup_expired()
Cleanup ==
  /\ \E drop \in Droppable :
       /\ requests' = CleanupExpired(drop).requests
       /\ limits' = CleanupExpired(drop).limits
  /\ UNCHANGED <<store, resp, granted, sessions>>

\* -------------------------- middleware/rate_limit.py: the middleware
\* The limits and windows that main.py configures, in the same order as
\* there: login limit < books limit = burst_limit < anonymous_limit, and
\* burst_window < window_seconds.
WindowSeconds == MaxWindow
BurstWindow == MaxWindow - 1
BurstLimit == MaxRateLimit
AnonymousLimit == MaxRateLimit + 1
\* the "anonymous" column of self.endpoint_limits
EndpointLimits ==
  [path \in {"/api/v1/auth/login", "/api/v1/books"} |->
     IF path = "/api/v1/auth/login" THEN MaxRateLimit - 1 ELSE MaxRateLimit]
ExcludedPaths == {"/health"}
Paths == ExcludedPaths \cup DOMAIN EndpointLimits \cup {"/api/v1/genres"}
Clients == {"testclient"}

\* _get_client_identifier: nothing sets request.state.user_id, so every
\* client is identified by its address
ClientIdentifier(client) == <<"ip", client>>
BurstIdentifier(identifier) == <<"burst">> \o identifier

\* _get_endpoint_limit for an anonymous client
GetEndpointLimit(path) ==
  IF path \in DOMAIN EndpointLimits THEN EndpointLimits[path] ELSE AnonymousLimit

\* the key under which the requests of a client for an endpoint with its own
\* limit are remembered
SeenIdentifier(identifier, path) == <<"seen", path>> \o identifier

\* the record g of requests after the middleware judged a request of
\* `identifier` for `path`, let through or not; of the requests for one
\* endpoint the most recent ones are kept, as many as the endpoint's limit
SeenAfter(g, identifier, path) ==
  LET key == SeenIdentifier(identifier, path)
      old == g[key].times
      kept == IF Len(old) >= GetEndpointLimit(path) THEN Tail(old) ELSE old
  IN IF path \in DOMAIN EndpointLimits
     THEN [g EXCEPT ![key] = [times |-> kept \o << <<0, path>> >>, denied |-> 0]]
     ELSE g

\* EnhancedRateLimitMiddleware.dispatch for a request of `client` for `path`
Dispatch(client, path) ==
  /\ resp = NoResp
  /\ IF path \in ExcludedPaths
     THEN /\ resp' = [op |-> "dispatch", client |-> client, path |-> path,
                      status_code |-> 200, code |-> "", limit |-> 0, remaining |-> 0]
          /\ UNCHANGED limiter
     ELSE \E cleanup_due \in BOOLEAN, drop \in Droppable :
            LET cleaned == IF cleanup_due THEN CleanupExpired(drop)
                           ELSE [requests |-> requests, limits |-> limits]
                identifier == ClientIdentifier(client)
                burst_id == BurstIdentifier(identifier)
                burst == IsAllowedResult(cleaned.requests[burst_id], BurstLimit, BurstWindow)
                burstRequests == [cleaned.requests EXCEPT ![burst_id] = burst.request_times]
                burstLimits == [cleaned.limits EXCEPT ![burst_id] = <<BurstLimit, BurstWindow>>]
                seen == SeenAfter(granted, identifier, path)
                regular_limit == GetEndpointLimit(path)
                regular == IsAllowedResult(burstRequests[identifier], regular_limit,
                                           WindowSeconds)
            IN IF ~burst.allowed
               THEN /\ requests' = burstRequests
                    /\ limits' = burstLimits
                    /\ granted' = seen
                    /\ resp' = [op |-> "dispatch", client |-> client, path |-> path,
                                status_code |-> 429, code |-> "BURST_LIMIT_EXCEEDED",
                                limit |-> BurstLimit, remaining |-> 0]
               ELSE /\ requests' = [burstRequests EXCEPT ![identifier] = regular.request_times]
                    /\ limits' = [burstLimits EXCEPT
                                    ![identifier] = <<regular_limit, WindowSeconds>>]
                    /\ granted' = seen
                    /\ resp' = [op |-> "dispatch", client |-> client, path |-> path,
                                status_code |-> IF regular.allowed THEN 200 ELSE 429,
                                code |-> IF regular.allowed THEN ""
                                         ELSE "RATE_LIMIT_EXCEEDED",
                                limit |-> regular_limit, remaining |-> regular.remaining]
  /\ UNCHANGED <<store, sessions>>

\* ------------------------------------------------------------------ Init
\* no request has reached the rate limiter and no handler is running
NoTraffic ==
  /\ requests = <<>>
  /\ limits = <<>>
  /\ granted = <<>>
  /\ sessions = <<>>

\* The catalogue is a choice of seed rows, one per book.  Books differ only
\* in their rows, so only catalogues listed in non-decreasing row order are
\* started from (one representative per renaming of the books).
InitCatalogue(rows) ==
  \E pick \in [BookIds -> 1..Len(rows)] :
    /\ \A b \in BookIds \ {NumBooks} : pick[b] <= pick[b + 1]
    /\ avgRating = [b \in BookIds |-> rows[pick[b]][1]]
    /\ totalReviews = [b \in BookIds |-> rows[pick[b]][2]]
    /\ bookGenres = [b \in BookIds |-> rows[pick[b]][3]]
    /\ createdAt = [b \in BookIds |-> rows[pick[b]][4]]

Init ==
  /\ InitCatalogue(SeedRows)
  /\ reviews = [u \in Users |-> [b \in BookIds |-> 0]]
  /\ reviewedAt = [u \in Users |-> [b \in BookIds |-> 0]]
  /\ favorites = {}
  /\ resp = NoResp
  /\ NoTraffic

\* --------------------------------------------------------- api/reviews.py
ReviewRows(rv) == Cardinality({ub \in (DOMAIN rv) \X Books : rv[ub[1]][ub[2]] # 0})
\* review and favorite rows in the store
StoreRows == ReviewRows(reviews) + Cardinality(favorites)

\* the store after a review mutation followed by update_book_rating(book);
\* a new review row gets created_at = now(), an updated one keeps its own
StoreReviews(rv, b) ==
  /\ reviews' = rv
  /\ reviewedAt' = [u \in DOMAIN rv |-> [c \in Books |->
                      IF rv[u][c] = 0 THEN 0
                      ELSE IF reviews[u][c] = 0 THEN Now ELSE reviewedAt[u][c]]]
  /\ avgRating' = [avgRating EXCEPT ![b] = NewAverageRating(rv, b)]
  /\ totalReviews' = [totalReviews EXCEPT ![b] = NewTotalReviews(rv, b)]
  /\ UNCHANGED <<bookGenres, createdAt, favorites, limiter, sessions>>

\* mutant: the existing-review check is skipped
CreateReviewRow_NoExistingCheck(u, b, rating) ==
  /\ resp = NoResp
  /\ StoreReviews([reviews EXCEPT ![u][b] = rating], b)
  /\ resp' = [op |-> "create_review", status |-> 201,
              user |-> u, book |-> b]

\* POST /books/{book_id}/reviews
CreateReviewRow(u, b, rating) ==
  /\ resp = NoResp
  /\ IF reviews[u][b] # 0
     THEN /\ resp' = [op |-> "create_review", status |-> 400,
                    user |-> u, book |-> b]
          /\ UNCHANGED <<store, limiter, sessions>>
     ELSE /\ StoreReviews([reviews EXCEPT ![u][b] = rating], b)
          /\ resp' = [op |-> "create_review", status |-> 201,
                    user |-> u, book |-> b]

\* the call, while the store holds fewer than MaxRows rows
CreateReview(u, b, rating) ==
  /\ reviews[u][b] # 0 \/ StoreRows < MaxRows
  /\ CreateReviewRow(u, b, rating)

\* mutant: the ownership check is skipped
UpdateReview_AnyCaller(caller, author, b, rating) ==
  /\ resp = NoResp
  /\ IF reviews[author][b] = 0
     THEN /\ resp' = [op |-> "update_review", status |-> 404,
                      caller |-> caller, author |-> author, book |-> b]
          /\ UNCHANGED <<store, limiter, sessions>>
     ELSE IF rating = 0
     THEN /\ resp' = [op |-> "update_review", status |-> 200,
                      caller |-> caller, author |-> author, book |-> b]
          /\ UNCHANGED <<store, limiter, sessions>>
     ELSE /\ StoreReviews([reviews EXCEPT ![author][b] = rating], b)
          /\ resp' = [op |-> "update_review", status |-> 200,
                      caller |-> caller, author |-> author, book |-> b]

\* PUT /reviews/{review_id}: the review of `author` on b, called by `caller`;
\* rating 0 stands for an update that leaves the rating unset
UpdateReview(caller, author, b, rating) ==
  /\ resp = NoResp
  /\ IF reviews[author][b] = 0
     THEN /\ resp' = [op |-> "update_review", status |-> 404,
                    caller |-> caller, author |-> author, book |-> b]
          /\ UNCHANGED <<store, limiter, sessions>>
     ELSE IF author # caller
     THEN /\ resp' = [op |-> "update_review", status |-> 403,
                    caller |-> caller, author |-> author, book |-> b]
          /\ UNCHANGED <<store, limiter, sessions>>
     ELSE IF rating = 0
     THEN /\ resp' = [op |-> "update_review", status |-> 200,
                    caller |-> caller, author |-> author, book |-> b]
          /\ UNCHANGED <<store, limiter, sessions>>
     ELSE /\ StoreReviews([reviews EXCEPT ![author][b] = rating], b)
          /\ resp' = [op |-> "update_review", status |-> 200,
                    caller |-> caller, author |-> author, book |-> b]

\* DELETE /reviews/{review_id}
DeleteReview(caller, author, b) ==
  /\ resp = NoResp
  /\ IF reviews[author][b] = 0
     THEN /\ resp' = [op |-> "delete_review", status |-> 404,
                    caller |-> caller, author |-> author, book |-> b]
          /\ UNCHANGED <<store, limiter, sessions>>
     ELSE IF author # caller
     THEN /\ resp' = [op |-> "delete_review", status |-> 403,
                    caller |-> caller, author |-> author, book |-> b]
          /\ UNCHANGED <<store, limiter, sessions>>
     ELSE /\ StoreReviews([reviews EXCEPT ![author][b] = 0], b)
          /\ resp' = [op |-> "delete_review", status |-> 204,
                    caller |-> caller, author |-> author, book |-> b]

\* ----------------------------------------------------------- api/users.py
\* POST /users/favorites/{book_id}
AddToFavorites(u, b) ==
  /\ resp = NoResp
  /\ IF <<u, b>> \in favorites
     THEN /\ resp' = [op |-> "add_to_favorites", status |-> 400,
                    user |-> u, book |-> b]
          /\ UNCHANGED <<store, limiter, sessions>>
     ELSE /\ StoreRows < MaxRows
          /\ favorites' = favorites \cup {<<u, b>>}
          /\ resp' = [op |-> "add_to_favorites", status |-> 201,
                    user |-> u, book |-> b]
          /\ UNCHANGED <<catalogue, reviews, reviewedAt, limiter, sessions>>

\* DELETE /users/favorites/{book_id}
RemoveFromFavorites(u, b) ==
  /\ resp = NoResp
  /\ IF <<u, b>> \notin favorites
     THEN /\ resp' = [op |-> "remove_from_favorites", status |-> 404,
                    user |-> u, book |-> b]
          /\ UNCHANGED <<store, limiter, sessions>>
     ELSE /\ favorites' = favorites \ {<<u, b>>}
          /\ resp' = [op |-> "remove_from_favorites", status |-> 204,
                    user |-> u, book |-> b]
          /\ UNCHANGED <<catalogue, reviews, reviewedAt, limiter, sessions>>

\* ------------------------------------------------- api/recommendations.py
\* GET /recommendations/personal (and direct calls with a malformed id)
PersonalRecommendations ==
  /\ resp = NoResp
  /\ \E valid \in BOOLEAN, u \in Users, limit \in Limits,
        failAt \in {"none", "profile", "excluded", "popular"}, fallbackFails \in BOOLEAN :
       \E popular_books \in GetPopularBooks(limit, NoGenre, DefaultMinReviews, NoDays) :
         resp' = [op |-> "personal", user |-> IF valid THEN u ELSE NoUser, limit |-> limit,
                  result |-> GetPersonalRecommendations(valid, u, limit, failAt,
                                                        fallbackFails, popular_books)]
  /\ UNCHANGED <<store, limiter, sessions>>

\* the response leaves the server; the next request is taken
Deliver ==
  /\ resp # NoResp
  /\ resp' = NoResp
  /\ UNCHANGED <<store, limiter, sessions>>

Next ==
  \/ \E u \in Users, b \in Books, r \in Ratings : CreateReview(u, b, r)
  \/ \E c \in Users, u \in Users, b \in Books, r \in Ratings \cup {0} : UpdateReview(c, u, b, r)
  \/ \E c \in Users, u \in Users, b \in Books : DeleteReview(c, u, b)
  \/ \E u \in Users, b \in Books : AddToFavorites(u, b)
  \/ \E u \in Users, b \in Books : RemoveFromFavorites(u, b)
  \/ PersonalRecommendations
  \/ Deliver

Spec == Init /\ [][Next]_vars

\* ------------------------------------------------ the rankers on their own
\* preferred_genres arguments: lists of distinct genres
GenreLists == UNION {Perms(gs) : gs \in SUBSET Genres}
\* the favorites present when the rankers are exercised: none or one row
FavoriteSeeds == {{}} \cup {{ub} : ub \in Users \X BookIds}

RankInit ==
  /\ InitCatalogue(RankSeedRows)
  /\ reviews = [u \in Users |-> [b \in BookIds |-> 0]]
  /\ reviewedAt = [u \in Users |-> [b \in BookIds |-> 0]]
  /\ favorites \in FavoriteSeeds
  /\ resp = NoResp
  /\ NoTraffic

\* GET /recommendations/popular
PopularRecommendations ==
  /\ resp = NoResp
  /\ \E limit \in Limits, genre_id \in {NoGenre} \cup Genres,
        min_reviews \in MinReviewsArgs, days_back \in DaysBackArgs :
       \E books \in GetPopularBooks(limit, genre_id, min_reviews, days_back) :
         resp' = [op |-> "popular", limit |-> limit, genre_id |-> genre_id,
                  min_reviews |-> min_reviews, days_back |-> days_back, books |-> books]
  /\ UNCHANGED <<store, limiter, sessions>>

\* GET /recommendations/genre/{genre_id}
GenreRecommendations ==
  /\ resp = NoResp
  /\ \E genre_id \in Genres, limit \in Limits, exclude_user_id \in {NoUser} \cup Users,
        min_rating \in MinRatings, min_reviews \in MinReviewsArgs :
       \E books \in GetGenreBooks(genre_id, limit, exclude_user_id, min_rating, min_reviews) :
         resp' = [op |-> "genre", genre_id |-> genre_id, limit |-> limit,
                  exclude_user_id |-> exclude_user_id, min_rating |-> min_rating,
                  min_reviews |-> min_reviews, books |-> books]
  /\ UNCHANGED <<store, limiter, sessions>>

\* GET /recommendations/diversity
DiverseRecommendations ==
  /\ resp = NoResp
  /\ \E preferred_genres \in GenreLists, limit \in Limits,
        exclude_user_id \in {NoUser} \cup Users :
       \E run \in GenreDiversityRuns(preferred_genres, limit, exclude_user_id) :
         resp' = [op |-> "diversity", preferred_genres |-> preferred_genres,
                  limit |-> limit, exclude_user_id |-> exclude_user_id,
                  genre_limits |-> run.genre_limits, all |-> run.all,
                  books |-> run.books]
  /\ UNCHANGED <<store, limiter, sessions>>

RankNext ==
  \/ PopularRecommendations
  \/ GenreRecommendations
  \/ DiverseRecommendations
  \/ Deliver

RankSpec == RankInit /\ [][RankNext]_vars

\* --------------------------------- the rankers on a store with interactions
\* seed rows of the catalogue browsed below; the last book has no genre
BrowseSeedRows ==
  << <<450, 10, {1}, MaxDay>>, <<400, 15, {1, 2}, MaxDay>>, <<420, 8, {2}, MaxDay>>,
     <<430, 6, {}, MaxDay>> >>
Days == 0..MaxDay
\* ratings of the first and of the second reviewer of a book
FirstRating == 4
SecondRating == 2
\* the interactions present when the store is browsed: none, a favorite of
\* user 1, a review by user 1, or reviews by users 1 and 2 of the same book
BrowseSeeds ==
  {[kind |-> "none", book |-> 1, day1 |-> 0, day2 |-> 0]}
  \cup {[kind |-> "favorite", book |-> b, day1 |-> 0, day2 |-> 0] : b \in BookIds}
  \cup {[kind |-> "review", book |-> b, day1 |-> d, day2 |-> 0] : b \in BookIds, d \in Days}
  \cup {[kind |-> "reviews", book |-> b, day1 |-> d, day2 |-> e] :
          b \in BookIds, d \in Days, e \in Days}

\* the review rows of a seed
SeedReviews(seed) ==
  [u \in Users |-> [b \in BookIds |->
     IF seed.book = b /\ u = 1 /\ seed.kind \in {"review", "reviews"} THEN FirstRating
     ELSE IF seed.book = b /\ u = 2 /\ seed.kind = "reviews" THEN SecondRating
     ELSE 0]]
SeedReviewedAt(seed) ==
  [u \in Users |-> [b \in BookIds |->
     IF seed.book = b /\ u = 1 /\ seed.kind \in {"review", "reviews"} THEN seed.day1
     ELSE IF seed.book = b /\ u = 2 /\ seed.kind = "reviews" THEN seed.day2
     ELSE 0]]

\* a seeded catalogue on which the seed's reviews were created through
\* create_review (the reviewed book's aggregates are the recomputed ones)
BrowseInit ==
  \E pick \in [BookIds -> 1..Len(BrowseSeedRows)], seed \in BrowseSeeds :
    /\ \A b \in BookIds \ {NumBooks} : pick[b] <= pick[b + 1]
    /\ reviews = SeedReviews(seed)
    /\ reviewedAt = SeedReviewedAt(seed)
    /\ favorites = IF seed.kind = "favorite" THEN {<<1, seed.book>>} ELSE {}
    /\ avgRating = [b \in BookIds |->
                      IF seed.book = b /\ seed.kind \in {"review", "reviews"}
                      THEN NewAverageRating(SeedReviews(seed), b)
                      ELSE BrowseSeedRows[pick[b]][1]]
    /\ totalReviews = [b \in BookIds |->
                         IF seed.book = b /\ seed.kind \in {"review", "reviews"}
                         THEN NewTotalReviews(SeedReviews(seed), b)
                         ELSE BrowseSeedRows[pick[b]][2]]
    /\ bookGenres = [b \in BookIds |-> BrowseSeedRows[pick[b]][3]]
    /\ createdAt = [b \in BookIds |-> BrowseSeedRows[pick[b]][4]]
    /\ resp = NoResp
    /\ NoTraffic

\* GET /recommendations/genre/{genre_id}/similar-to/{book_id}
SimilarRecommendations ==
  /\ resp = NoResp
  /\ \E book_id \in {NoBook} \cup Books, limit \in Limits,
        exclude_user_id \in {NoUser} \cup Users :
       \E books \in GetSimilarGenreBooks(book_id, limit, exclude_user_id) :
         resp' = [op |-> "similar", book_id |-> book_id, limit |-> limit,
                  exclude_user_id |-> exclude_user_id, books |-> books]
  /\ UNCHANGED <<store, limiter, sessions>>

\* GET /recommendations/trending
TrendingRecommendations ==
  /\ resp = NoResp
  /\ \E limit \in Limits, days_back \in 1..(MaxDay + 1), min_reviews_in_period \in {1, 2} :
       \E books \in GetTrendingBooks(limit, days_back, min_reviews_in_period) :
         resp' = [op |-> "trending", limit |-> limit, days_back |-> days_back,
                  min_reviews_in_period |-> min_reviews_in_period, books |-> books]
  /\ UNCHANGED <<store, limiter, sessions>>

BrowseNext ==
  \/ GenreRecommendations
  \/ DiverseRecommendations
  \/ SimilarRecommendations
  \/ TrendingRecommendations
  \/ Deliver

BrowseSpec == BrowseInit /\ [][BrowseNext]_vars

\* --------------------------------------------- the preference profile alone
\* genre sets of the books profiled below; the last has one genre more than
\* favorite_genres can hold
ProfileGenreSets == << {1}, {2}, {1, 2}, 1..(MaxFavoriteGenres + 1) >>
\* ratings user 1 gave (0: no review)
ProfileRatings == {0, 3, 4, 5}
\* aggregates of a seeded book nobody reviewed
UnreviewedAggregates == <<450, 10>>

\* a catalogue on which user 1 created reviews and at most one favorite; the
\* book with the most genres is the last one and the only book with activity
ProfileInit ==
  \E pick \in [BookIds -> 1..Len(ProfileGenreSets)], rv \in [BookIds -> ProfileRatings],
     favs \in {{}} \cup {{<<1, b>>} : b \in BookIds} :
    /\ \A b \in BookIds \ {NumBooks} : pick[b] <= pick[b + 1]
    /\ \A b \in BookIds : pick[b] = Len(ProfileGenreSets) =>
          (b = NumBooks /\ favs = {} /\ \A c \in BookIds \ {b} : rv[c] = 0)
    /\ reviews = [u \in Users |-> [b \in BookIds |-> IF u = 1 THEN rv[b] ELSE 0]]
    /\ reviewedAt = [u \in Users |-> [b \in BookIds |->
                       IF u = 1 /\ rv[b] # 0 THEN MaxDay ELSE 0]]
    /\ favorites = favs
    /\ avgRating = [b \in BookIds |->
                      IF rv[b] # 0 THEN 100 * rv[b] ELSE UnreviewedAggregates[1]]
    /\ totalReviews = [b \in BookIds |-> IF rv[b] # 0 THEN 1 ELSE UnreviewedAggregates[2]]
    /\ bookGenres = [b \in BookIds |-> ProfileGenreSets[pick[b]]]
    /\ createdAt = [b \in BookIds |-> MaxDay]
    /\ resp = NoResp
    /\ NoTraffic

\* _analyze_user_preferences(user_id)
AnalyzeUserPreferences ==
  /\ resp = NoResp
  /\ \E u \in Users :
       \E favorite_genres \in FavoriteGenres(u) :
         resp' = [op |-> "profile", user |-> u, has_activity |-> HasActivity(u),
                  favorite_genres |-> favorite_genres]
  /\ UNCHANGED <<store, limiter, sessions>>

ProfileNext ==
  \/ AnalyzeUserPreferences
  \/ Deliver

ProfileSpec == ProfileInit /\ [][ProfileNext]_vars

\* ------------------------------------------------ user similarity alone
\* a store of MaxCommon books that users 1 and 2 have reviewed
SimBooks == 1..MaxCommon
SimRatings == {1, 2, 5}

\* Books differ only in the ratings they got, so user 1's ratings are listed
\* in non-decreasing order (one store per renaming of the books).
SimilarityInit ==
  \E r1 \in [SimBooks -> {0} \cup SimRatings], r2 \in [SimBooks -> {0} \cup SimRatings] :
    /\ \A b \in SimBooks \ {MaxCommon} : r1[b] <= r1[b + 1]
    /\ reviews = [u \in Users |-> [b \in SimBooks |->
                    IF u = 1 THEN r1[b] ELSE IF u = 2 THEN r2[b] ELSE 0]]
    /\ reviewedAt = [u \in Users |-> [b \in SimBooks |->
                       IF reviews[u][b] # 0 THEN MaxDay ELSE 0]]
    /\ favorites = {}
    /\ avgRating = [b \in SimBooks |-> NewAverageRating(reviews, b)]
    /\ totalReviews = [b \in SimBooks |-> NewTotalReviews(reviews, b)]
    /\ bookGenres = [b \in SimBooks |-> {1}]
    /\ createdAt = [b \in SimBooks |-> MaxDay]
    /\ resp = NoResp
    /\ NoTraffic

\* get_user_similarity_score(user1_id, user2_id)
UserSimilarityScore ==
  /\ resp = NoResp
  /\ \E user1 \in Users, user2 \in Users :
       LET result == GetUserSimilarityScore(reviews, user1, user2)
       IN resp' = [op |-> "similarity", user1 |-> user1, user2 |-> user2,
                   score |-> result.score, returned_at |-> result.returned_at]
  /\ UNCHANGED <<store, limiter, sessions>>

SimilarityNext ==
  \/ UserSimilarityScore
  \/ Deliver

SimilaritySpec == SimilarityInit /\ [][SimilarityNext]_vars

\* ------------------------------------------- the review handlers at length
\* the users who review: three, so that a mean need not be a multiple of 0.5
Reviewers == 1..(NumUsers + 1)

\* books as the Book model creates them (average_rating 0.00, total_reviews 0),
\* with no review and no favorite yet
ReviewInit ==
  /\ avgRating = [b \in BookIds |-> 0]
  /\ totalReviews = [b \in BookIds |-> 0]
  /\ bookGenres = [b \in BookIds |-> {1}]
  /\ createdAt = [b \in BookIds |-> MaxDay]
  /\ reviews = [u \in Reviewers |-> [b \in BookIds |-> 0]]
  /\ reviewedAt = [u \in Reviewers |-> [b \in BookIds |-> 0]]
  /\ favorites = {}
  /\ resp = NoResp
  /\ NoTraffic

\* POST /books/{book_id}/reviews, while the store holds fewer than MaxReviews reviews
CreateReviewAmongMany(u, b, rating) ==
  /\ reviews[u][b] # 0 \/ ReviewRows(reviews) < MaxReviews
  /\ CreateReviewRow(u, b, rating)

ReviewNext ==
  \/ \E u \in Reviewers, b \in Books, r \in Ratings : CreateReviewAmongMany(u, b, r)
  \/ \E c \in Reviewers, u \in Reviewers, b \in Books, r \in Ratings \cup {0} :
       UpdateReview(c, u, b, r)
  \/ \E c \in Reviewers, u \in Reviewers, b \in Books : DeleteReview(c, u, b)
  \/ Deliver

ReviewSpec == ReviewInit /\ [][ReviewNext]_vars

\* ---------------------------------------- personal lists for a returning user
\* the seeded books and one more, which user 1 reviewed
ReaderBookIds == 1..(NumBooks + 1)
\* genres of the reviewed book: one genre, or none attached
ReaderGenreSets == {{1}, {}}

\* a seeded catalogue plus one book on which user 1 called create_review (its
\* aggregates are the recomputed ones), and at most one favorite of user 1
ReaderInit ==
  \E pick \in [BookIds -> 1..Len(SeedRows)], rating \in Ratings, gs \in ReaderGenreSets,
     favs \in {{}} \cup {{<<1, b>>} : b \in ReaderBookIds} :
    /\ \A b \in BookIds \ {NumBooks} : pick[b] <= pick[b + 1]
    /\ avgRating = [b \in ReaderBookIds |->
                      IF b \in BookIds THEN SeedRows[pick[b]][1] ELSE 100 * rating]
    /\ totalReviews = [b \in ReaderBookIds |->
                         IF b \in BookIds THEN SeedRows[pick[b]][2] ELSE 1]
    /\ bookGenres = [b \in ReaderBookIds |->
                       IF b \in BookIds THEN SeedRows[pick[b]][3] ELSE gs]
    /\ createdAt = [b \in ReaderBookIds |->
                      IF b \in BookIds THEN SeedRows[pick[b]][4] ELSE MaxDay]
    /\ reviews = [u \in Users |-> [b \in ReaderBookIds |->
                    IF u = 1 /\ b \notin BookIds THEN rating ELSE 0]]
    /\ reviewedAt = [u \in Users |-> [b \in ReaderBookIds |->
                       IF u = 1 /\ b \notin BookIds THEN MaxDay ELSE 0]]
    /\ favorites = favs
    /\ resp = NoResp
    /\ NoTraffic

ReaderNext ==
  \/ PersonalRecommendations
  \/ Deliver

ReaderSpec == ReaderInit /\ [][ReaderNext]_vars

\* ------------------------------------ collaborative recommendations alone
\* one more user than similar_users can hold, besides the requesting users
CollabUsers == 1..(NumUsers + MaxNeighbours)
\* two books the first user reviewed and the books others may recommend
CollabBookIds == 1..(NumBooks + 1)
\* the reviews of the first user
FirstUserRatings == <<4, 2, 0>>
\* the reviews a further user may have, by book: none; one common book and a
\* liked third book; both common books and a liked third book; both common
\* books rated highest and nothing else; both common books and a third book
\* rated 4
CollabProfiles ==
  << <<0, 0, 0>>, <<5, 0, 5>>, <<4, 4, 5>>, <<5, 5, 0>>, <<2, 3, 4>> >>

\* Users after the first differ only in their reviews, so their profiles are
\* listed in non-decreasing order (one store per renaming of the users): the
\* users from cuts[i] on have a profile after the i-th.
CollabInit ==
  \E cuts \in [1..(Len(CollabProfiles) - 1) -> 2..(NumUsers + MaxNeighbours + 1)] :
    /\ \A i \in 1..(Len(CollabProfiles) - 2) : cuts[i] <= cuts[i + 1]
    /\ reviews = [u \in CollabUsers |-> [b \in CollabBookIds |->
                    IF b > 3 THEN 0
                    ELSE IF u = 1 THEN FirstUserRatings[b]
                    ELSE CollabProfiles[
                           1 + Cardinality({i \in DOMAIN cuts : cuts[i] <= u})][b]]]
    /\ reviewedAt = [u \in CollabUsers |-> [b \in CollabBookIds |->
                       IF reviews[u][b] # 0 THEN MaxDay ELSE 0]]
    /\ favorites = {}
    /\ avgRating = [b \in CollabBookIds |-> NewAverageRating(reviews, b)]
    /\ totalReviews = [b \in CollabBookIds |-> NewTotalReviews(reviews, b)]
    /\ bookGenres = [b \in CollabBookIds |-> {1}]
    /\ createdAt = [b \in CollabBookIds |-> MaxDay]
    /\ resp = NoResp
    /\ NoTraffic

\* excluded_books arguments: nothing, the user's own books, the third book
ExcludedBooksArgs(u) == {{}, UserExcludedBooks(u), {3}}

\* _get_collaborative_recommendations(user_id, excluded_books, limit)
CollaborativeRecommendations ==
  /\ resp = NoResp
  /\ \E user_id \in Users, limit \in Limits :
       \E excluded_books \in ExcludedBooksArgs(user_id) :
         \E run \in CollaborativeRuns(reviews, user_id, excluded_books, limit) :
           resp' = [op |-> "collaborative", user |-> user_id, limit |-> limit,
                    excluded_books |-> excluded_books,
                    similar_users |-> run.similar_users, books |-> run.books]
  /\ UNCHANGED <<store, limiter, sessions>>

CollabNext ==
  \/ CollaborativeRecommendations
  \/ Deliver

CollabSpec == CollabInit /\ [][CollabNext]_vars

\* ------------------------------------------------ the rate limiter alone
\* books as the Book model creates them, no reviews, no favorites
UntouchedStore ==
  /\ avgRating = [b \in BookIds |-> 0]
  /\ totalReviews = [b \in BookIds |-> 0]
  /\ bookGenres = [b \in BookIds |-> {1}]
  /\ createdAt = [b \in BookIds |-> MaxDay]
  /\ reviews = [u \in Users |-> [b \in BookIds |-> 0]]
  /\ reviewedAt = [u \in Users |-> [b \in BookIds |-> 0]]
  /\ favorites = {}

\* InMemoryRateLimiter(): no identifier has been seen
NewLimiter(ids) ==
  /\ requests = [id \in ids |-> <<>>]
  /\ limits = [id \in ids |-> NoLimit]
  /\ granted = [id \in ids |-> [times |-> <<>>, denied |-> 0]]

LimiterInit ==
  /\ UntouchedStore
  /\ NewLimiter(LimiterIds)
  /\ sessions = <<>>
  /\ resp = NoResp

LimiterNext ==
  \/ \E identifier \in LimiterIds : IsAllowed(identifier)
  \/ Tick
  \/ Cleanup
  \/ Deliver

LimiterSpec == LimiterInit /\ [][LimiterNext]_vars

\* time passes, responses are delivered, and every client keeps calling
LimiterFairness ==
  /\ WF_vars(Tick)
  /\ WF_vars(Deliver)
  /\ \A identifier \in LimiterIds : SF_vars(IsAllowed(identifier))

LiveLimiterSpec == LimiterSpec /\ LimiterFairness

\* ------------------------------------------------ the middleware
\* every key that dispatch can pass to the rate limiter
MiddlewareIds ==
  UNION {{ClientIdentifier(c), BurstIdentifier(ClientIdentifier(c))} : c \in Clients}

MiddlewareInit ==
  /\ UntouchedStore
  /\ requests = [id \in MiddlewareIds |-> <<>>]
  /\ limits = [id \in MiddlewareIds |-> NoLimit]
  /\ granted = [id \in {SeenIdentifier(ClientIdentifier(c), path) :
                            c \in Clients, path \in DOMAIN EndpointLimits}
                  |-> [times |-> <<>>, denied |-> 0]]
  /\ sessions = <<>>
  /\ resp = NoResp

MiddlewareNext ==
  \/ \E client \in Clients, path \in Paths : Dispatch(client, path)
  \/ Tick
  \/ Deliver

MiddlewareSpec == MiddlewareInit /\ [][MiddlewareNext]_vars

\* ------------------------------------- review mutations, step by step
\* Each request has its own Session (database.py, get_db) and the handlers
\* take no lock, so the statements of two requests served by different
\* workers interleave; every statement reads what is committed when it runs.
\* sessions[u] is the request of user u: where it is in the handler, the
\* book it is about, the rating_stats row it read and the book row it loaded.
Requesters == {1, 2}
IdleSession ==
  [pc |-> "idle", book |-> 0, avg_rating |-> 0, total_reviews |-> 0,
   book_average_rating |-> 0, book_total_reviews |-> 0]

\* the handler of user u has checked its request and committed the review rows rv
CommitReview(u, b, rv) ==
  /\ sessions[u].pc = "idle"
  /\ reviews' = rv
  /\ reviewedAt' = [v \in DOMAIN rv |-> [c \in Books |->
                      IF rv[v][c] = 0 THEN 0
                      ELSE IF reviews[v][c] = 0 THEN Now ELSE reviewedAt[v][c]]]
  /\ sessions' = [sessions EXCEPT ![u] = [IdleSession EXCEPT !.pc = "committed", !.book = b]]
  /\ UNCHANGED <<catalogue, favorites, limiter, resp>>

\* create_review up to db.commit()
BeginCreateReview(u, b, rating) ==
  /\ reviews[u][b] = 0
  /\ CommitReview(u, b, [reviews EXCEPT ![u][b] = rating])

\* update_review up to db.commit()
BeginUpdateReview(u, b, rating) ==
  /\ reviews[u][b] # 0
  /\ CommitReview(u, b, [reviews EXCEPT ![u][b] = rating])

\* delete_review up to db.commit()
BeginDeleteReview(u, b) ==
  /\ reviews[u][b] # 0
  /\ CommitReview(u, b, [reviews EXCEPT ![u][b] = 0])

\* update_book_rating: the query for avg(rating) and count(id)
ReadRatingStats(u) ==
  /\ sessions[u].pc = "committed"
  /\ sessions' = [sessions EXCEPT
                    ![u].pc = "read",
                    ![u].avg_rating = NewAverageRating(reviews, sessions[u].book),
                    ![u].total_reviews = NewTotalReviews(reviews, sessions[u].book)]
  /\ UNCHANGED <<store, limiter, resp>>

\* update_book_rating: the query for the book row
LoadBook(u) ==
  /\ sessions[u].pc = "read"
  /\ sessions' = [sessions EXCEPT
                    ![u].pc = "loaded",
                    ![u].book_average_rating = avgRating[sessions[u].book],
                    ![u].book_total_reviews = totalReviews[sessions[u].book]]
  /\ UNCHANGED <<store, limiter, resp>>

\* update_book_rating: the two assignments and db.commit(); the UPDATE sets
\* the columns whose value differs from the one loaded
CommitBook(u) ==
  LET s == sessions[u]
  IN /\ s.pc = "loaded"
     /\ avgRating' = IF s.avg_rating # s.book_average_rating
                     THEN [avgRating EXCEPT ![s.book] = s.avg_rating]
                     ELSE avgRating
     /\ totalReviews' = IF s.total_reviews # s.book_total_reviews
                        THEN [totalReviews EXCEPT ![s.book] = s.total_reviews]
                        ELSE totalReviews
     /\ sessions' = [sessions EXCEPT ![u].pc = "done"]
     /\ UNCHANGED <<bookGenres, createdAt, reviews, reviewedAt, favorites, limiter, resp>>

\* reviews of the first book only, and aggregates that agree with them
RaceInit ==
  /\ \E seed \in [Users -> {0} \cup Ratings] :
       /\ reviews = [u \in Users |-> [b \in BookIds |-> IF b = 1 THEN seed[u] ELSE 0]]
       /\ reviewedAt = [u \in Users |-> [b \in BookIds |->
                          IF b = 1 /\ seed[u] # 0 THEN 1 ELSE 0]]
  /\ avgRating = [b \in BookIds |-> NewAverageRating(reviews, b)]
  /\ totalReviews = [b \in BookIds |-> NewTotalReviews(reviews, b)]
  /\ bookGenres = [b \in BookIds |-> {1}]
  /\ createdAt = [b \in BookIds |-> 1]
  /\ favorites = {}
  /\ requests = <<>> /\ limits = <<>> /\ granted = <<>>
  /\ sessions = [u \in Requesters |-> IdleSession]
  /\ resp = NoResp

RaceNext ==
  \/ \E u \in Requesters, b \in Books, rating \in Ratings : BeginCreateReview(u, b, rating)
  \/ \E u \in Requesters, b \in Books, rating \in Ratings : BeginUpdateReview(u, b, rating)
  \/ \E u \in Requesters, b \in Books : BeginDeleteReview(u, b)
  \/ \E u \in Requesters : ReadRatingStats(u)
  \/ \E u \in Requesters : LoadBook(u)
  \/ \E u \in Requesters : CommitBook(u)

RaceSpec == RaceInit /\ [][RaceNext]_vars

\* ================================================================ claims
\* shorthand for the pending response of get_personal_recommendations
PersonalReturned ==
  resp.op = "personal" /\ resp.result.status = "returned"
PersonalForUser ==
  PersonalReturned /\ resp.user # NoUser

\* C1: no book returned by get_personal_recommendations is a book the user
\* has reviewed or favorited, whichever branch produced the response.
C1_ExcludedNeverReturned ==
  PersonalForUser =>
    \A i \in 1..Len(resp.result.books) :
      resp.result.books[i] \notin UserExcludedBooks(resp.user)

\* C2: for a user with no reviews and no favorites the response has type
\* 'popular' and its books are a list get_popular_books(limit) returns on the
\* same store: every eligible book up to limit, nothing removed.
C2_NewUserGetsPopular ==
  (PersonalForUser /\ (\A b \in Books :
       reviews[resp.user][b] = 0 /\ <<resp.user, b>> \notin favorites)) =>
    /\ resp.result.type = "popular"
    /\ resp.result.books \in GetPopularBooks(resp.limit, NoGenre, DefaultMinReviews, NoDays)
    /\ Len(resp.result.books) =
         Min(resp.limit, Cardinality({b \in Books : totalReviews[b] >= DefaultMinReviews}))

\* C2 witness: a new user got a non-empty popular list through the new-user branch
C2_Witness ==
  /\ PersonalForUser
  /\ \A b \in Books : reviews[resp.user][b] = 0 /\ <<resp.user, b>> \notin favorites
  /\ resp.result.explanation = "new"
  /\ Len(resp.result.books) >= 1
  /\ \E v \in Users : UserExcludedBooks(v) # {}

\* C3: get_personal_recommendations never propagates an exception: whatever
\* step fails, the fallback lookup included, a 'popular' response is returned.
C3_NeverRaises ==
  resp.op = "personal" =>
    /\ resp.result.status = "returned"
    /\ (resp.result.failed # {} => resp.result.type = "popular")

\* C4: the response type is 'popular' exactly when the id is malformed, the
\* profile step fails, has_activity is false or a later step fails, and
\* 'personal' otherwise; after a no-activity or failure outcome no exclusion
\* or candidate step runs.
C4_TypeAndTerminal ==
  PersonalReturned =>
    LET r == resp.result
        malformed == resp.user = NoUser
        profileFailed == "profile" \in r.failed
        noActivity == ~malformed /\ ~profileFailed /\ ~HasActivity(resp.user)
        laterFailed == r.failed \cap {"excluded", "popular"} # {}
        last == r.steps[Len(r.steps)]
    IN /\ r.type \in {"popular", "personal"}
       /\ r.type = "popular" <=> (malformed \/ profileFailed \/ noActivity \/ laterFailed)
       /\ (malformed \/ profileFailed \/ noActivity) =>
            Range(r.steps) \cap {"excluded", "filter"} = {}
       /\ noActivity => last = "popular"
       /\ r.failed # {} =>
            /\ last = "fallback_popular"
            /\ r.steps[Len(r.steps) - 1] \in r.failed
            /\ "filter" \notin Range(r.steps)

\* C4 witnesses: a personal response, and a popular response after the
\* exclusion step of an active user failed
C4_Witness ==
  /\ PersonalForUser
  /\ HasActivity(resp.user)
  /\ resp.result.type = "popular"
  /\ "excluded" \in resp.result.failed

\* the genre share of a 60/40 split of limit
GenreShare(limit) == (6 * limit) \div 10

\* C5: with has_activity true the list is built from genre-based candidates
\* (about 60% of limit) and collaborative candidates; popularity output only
\* backfills.  Hence the genre-based candidates of the user's favorite genres
\* are in the returned list.
C5_BuiltFromCandidates ==
  (PersonalForUser /\ resp.result.type = "personal") =>
    \E fav \in FavoriteGenres(resp.user) :
      \E g \in GenreBasedRecommendations(fav, UserExcludedBooks(resp.user),
                                         GenreShare(resp.limit)) :
        Range(g) \subseteq Range(resp.result.books)

\* C6: with has_activity true at most limit books are returned, fewer only
\* when fewer than limit books the user has not interacted with are available
\* from the candidate and popularity pools, and padding adds no excluded book.
C6_LimitAndPadding ==
  (PersonalForUser /\ resp.result.type = "personal") =>
    LET u == resp.user
        pool == {b \in Books :
                   /\ b \notin UserExcludedBooks(u)
                   /\ \/ totalReviews[b] >= DefaultMinReviews
                      \/ /\ totalReviews[b] >= DefaultGenreMinReviews
                         /\ bookGenres[b] \cap GenrePreferenceRows(u) # {}}
    IN /\ Len(resp.result.books) <= resp.limit
       /\ Len(resp.result.books) < resp.limit => Cardinality(pool) < resp.limit
       /\ \A i \in 1..Len(resp.result.books) :
            resp.result.books[i] \notin UserExcludedBooks(u)

\* C7: for n >= 1 preferred genres and limit >= 1 the genre at position i is
\* queried with sub-limit floor(limit / n) + (1 if i < limit mod n else 0),
\* and the sub-limits sum to limit.
C7_SubLimitsSumToLimit ==
  (resp.op = "diversity" /\ Len(resp.preferred_genres) >= 1) =>
    LET n == Len(resp.preferred_genres)
    IN /\ \A i \in 1..n :
            resp.genre_limits[i] =
              (resp.limit \div n) + (IF i - 1 < resp.limit % n THEN 1 ELSE 0)
       /\ SumSeq(resp.genre_limits) = resp.limit

\* C8: the list get_genre_diversity_recommendations returns has no book
\* twice, at most limit entries, lists the books of the concatenated per-genre
\* results in the order of their first occurrence (skipping none before the
\* cut), and is empty when preferred_genres is empty.
C8_DiversityDedupOrder ==
  resp.op = "diversity" =>
    LET books == resp.books
        all == resp.all
        First(b) == CHOOSE i \in 1..Len(all) : all[i] = b /\ \A j \in 1..(i - 1) : all[j] # b
    IN /\ \A i, j \in 1..Len(books) : i # j => books[i] # books[j]
       /\ Len(books) <= resp.limit
       /\ Range(books) \subseteq Range(all)
       /\ \A i, j \in 1..Len(books) : i < j => First(books[i]) < First(books[j])
       /\ Len(books) = Min(resp.limit, Cardinality(Range(all)))
       /\ resp.preferred_genres = <<>> => books = <<>>

\* C8 witness: a book came back from two genres and the list kept it once, first
C8_Witness ==
  /\ resp.op = "diversity"
  /\ Len(resp.books) >= 2
  /\ \E i, j \in 1..Len(resp.all) : i < j /\ resp.all[i] = resp.all[j]

\* C9: every book get_popular_books returns has total_reviews >= min_reviews,
\* belongs to genre_id and was created within days_back when those are given;
\* every book get_genre_books returns belongs to the genre and has
\* average_rating >= min_rating and total_reviews >= min_reviews.
C9_EligibilityFilters ==
  /\ resp.op = "popular" =>
       \A i \in 1..Len(resp.books) :
         LET b == resp.books[i]
         IN /\ totalReviews[b] >= resp.min_reviews
            /\ resp.genre_id # NoGenre => resp.genre_id \in bookGenres[b]
            /\ resp.days_back # NoDays => createdAt[b] >= Now - resp.days_back
  /\ resp.op = "genre" =>
       \A i \in 1..Len(resp.books) :
         LET b == resp.books[i]
         IN /\ resp.genre_id \in bookGenres[b]
            /\ avgRating[b] >= resp.min_rating
            /\ totalReviews[b] >= resp.min_reviews

\* C9 witness: a filtered popular list that a filter kept some book out of
C9_Witness ==
  /\ resp.op = "popular"
  /\ resp.genre_id # NoGenre
  /\ resp.days_back # NoDays
  /\ Len(resp.books) >= 1
  /\ \E b \in Books \ Range(resp.books) :
       \/ totalReviews[b] < resp.min_reviews
       \/ resp.genre_id \notin bookGenres[b]
       \/ createdAt[b] < Now - resp.days_back

\* C10: get_popular_books returns the first limit eligible books by descending
\* popularity_score, then descending average_rating, then descending
\* total_reviews: the list is sorted, as long as limit allows, and no eligible
\* book left out ranks strictly above a returned one.
C10_PopularOrder ==
  resp.op = "popular" =>
    LET m == resp.min_reviews
        books == resp.books
        eligible == {b \in Books :
                       /\ totalReviews[b] >= m
                       /\ resp.genre_id # NoGenre => resp.genre_id \in bookGenres[b]
                       /\ resp.days_back # NoDays => createdAt[b] >= Now - resp.days_back}
        \* score(a) - score(b), scaled by the positive product of the denominators
        Diff(a, b) == avgRating[a] * totalReviews[a] * (totalReviews[b] + m)
                      - avgRating[b] * totalReviews[b] * (totalReviews[a] + m)
        Above(a, b) ==
          \/ Diff(a, b) > 0
          \/ Diff(a, b) = 0 /\ avgRating[a] > avgRating[b]
          \/ Diff(a, b) = 0 /\ avgRating[a] = avgRating[b] /\ totalReviews[a] > totalReviews[b]
    IN /\ Range(books) \subseteq eligible
       /\ \A i, j \in 1..Len(books) : i # j => books[i] # books[j]
       /\ Len(books) = Min(resp.limit, Cardinality(eligible))
       /\ \A i, j \in 1..Len(books) : i < j => ~Above(books[j], books[i])
       /\ \A e \in eligible \ Range(books) : \A i \in 1..Len(books) : ~Above(e, books[i])

\* C10 witness: the score decided against the rating order, and the limit
\* cut an eligible book
C10_Witness ==
  /\ resp.op = "popular"
  /\ Len(resp.books) >= 1
  /\ \E e \in Books \ Range(resp.books) :
       /\ totalReviews[e] >= resp.min_reviews
       /\ avgRating[e] > avgRating[resp.books[Len(resp.books)]]
       /\ resp.genre_id # NoGenre => resp.genre_id \in bookGenres[e]
       /\ resp.days_back # NoDays => createdAt[e] >= Now - resp.days_back

\* C11: for the min_reviews of a popularity query, no book's popularity_score
\* exceeds its average_rating, and of two books with the same average_rating
\* the one with more total_reviews has its score at least as close to the
\* rating, strictly closer when the rating is positive.  The distance
\* average_rating - score is compared exactly, by cross-multiplication.
C11_ScoreApproachesRating ==
  resp.op = "popular" =>
    LET m == resp.min_reviews
        \* average_rating - popularity_score, as a fraction GapNum / ScoreDen
        GapNum(x) == avgRating[x] * ScoreDen(x, m) - ScoreNum(x)
    IN \A a, b \in Books :
         /\ ScoreDen(a, m) > 0
         /\ GapNum(a) >= 0
         /\ (avgRating[a] = avgRating[b] /\ totalReviews[a] > totalReviews[b]) =>
              /\ GapNum(a) * ScoreDen(b, m) <= GapNum(b) * ScoreDen(a, m)
              /\ avgRating[a] > 0 =>
                   GapNum(a) * ScoreDen(b, m) < GapNum(b) * ScoreDen(a, m)

\* C11 witness: a popular list ranks a book above one of the same positive
\* rating with fewer reviews
C11_Witness ==
  /\ resp.op = "popular"
  /\ Len(resp.books) >= 2
  /\ avgRating[resp.books[1]] = avgRating[resp.books[2]]
  /\ avgRating[resp.books[1]] > 0
  /\ totalReviews[resp.books[1]] > totalReviews[resp.books[2]]


\* C13: get_genre_books returns the eligible books of the genre by descending
\* average_rating, then descending total_reviews, then descending created_at,
\* cut to limit: the list is sorted on the three keys, is as long as limit
\* allows, and no eligible book left out ranks strictly above a returned one.
C13_GenreOrder ==
  resp.op = "genre" =>
    LET books == resp.books
        u == resp.exclude_user_id
        eligible == {b \in Books :
                       /\ resp.genre_id \in bookGenres[b]
                       /\ avgRating[b] >= resp.min_rating
                       /\ totalReviews[b] >= resp.min_reviews
                       /\ u # NoUser => (reviews[u][b] = 0 /\ <<u, b>> \notin favorites)}
        Key(b) == <<avgRating[b], totalReviews[b], createdAt[b]>>
        Above(a, b) ==
          \/ Key(a)[1] > Key(b)[1]
          \/ Key(a)[1] = Key(b)[1] /\ Key(a)[2] > Key(b)[2]
          \/ Key(a)[1] = Key(b)[1] /\ Key(a)[2] = Key(b)[2] /\ Key(a)[3] > Key(b)[3]
    IN /\ Range(books) \subseteq eligible
       /\ \A i, j \in 1..Len(books) : i # j => books[i] # books[j]
       /\ Len(books) = Min(resp.limit, Cardinality(eligible))
       /\ \A i, j \in 1..Len(books) : i < j => ~Above(books[j], books[i])
       /\ \A e \in eligible \ Range(books) : \A i \in 1..Len(books) : ~Above(e, books[i])

\* C13 witness: two books equal in rating and review count came back with the
\* newer one first
C13_Witness ==
  /\ resp.op = "genre"
  /\ Len(resp.books) >= 2
  /\ avgRating[resp.books[1]] = avgRating[resp.books[2]]
  /\ totalReviews[resp.books[1]] = totalReviews[resp.books[2]]
  /\ createdAt[resp.books[1]] > createdAt[resp.books[2]]


\* C17: on a fixed store, a second call of a ranker with the same arguments
\* returns the same ordered list as the first: the list in the response is
\* the only list the call can return on this store.
C17_RepeatableLists ==
  /\ resp.op = "popular" =>
       \A again \in GetPopularBooks(resp.limit, resp.genre_id, resp.min_reviews,
                                    resp.days_back) : again = resp.books
  /\ resp.op = "genre" =>
       \A again \in GetGenreBooks(resp.genre_id, resp.limit, resp.exclude_user_id,
                                  resp.min_rating, resp.min_reviews) : again = resp.books
  /\ resp.op = "diversity" =>
       \A again \in GetGenreDiversityRecommendations(resp.preferred_genres, resp.limit,
                                                     resp.exclude_user_id) :
         again = resp.books


\* C12: when exclude_user_id is given, no book returned by get_genre_books,
\* get_similar_genre_books or get_genre_diversity_recommendations has been
\* reviewed or favorited by that user.
C12_ExcludeUserBooks ==
  (resp.op \in {"genre", "similar", "diversity"} /\ resp.exclude_user_id # NoUser) =>
    \A i \in 1..Len(resp.books) :
      /\ reviews[resp.exclude_user_id][resp.books[i]] = 0
      /\ <<resp.exclude_user_id, resp.books[i]>> \notin favorites

\* C12 witness: a similar-books list for a user whose favorited book shares a
\* genre with the source book and was kept out of the list
C12_Witness ==
  /\ resp.op = "similar"
  /\ resp.exclude_user_id # NoUser
  /\ resp.book_id \in Books
  /\ \E b \in Books \ Range(resp.books) :
       /\ b # resp.book_id
       /\ <<resp.exclude_user_id, b>> \in favorites
       /\ bookGenres[b] \cap bookGenres[resp.book_id] # {}

\* C14: every book get_similar_genre_books(book_id) returns shares a genre
\* with book_id and is not book_id; the result is empty when book_id has no
\* genres or names no stored book.
C14_SimilarShareGenre ==
  resp.op = "similar" =>
    /\ \A i \in 1..Len(resp.books) :
         /\ resp.books[i] # resp.book_id
         /\ resp.book_id \in Books
         /\ bookGenres[resp.books[i]] \cap bookGenres[resp.book_id] # {}
    /\ (resp.book_id \notin Books \/ bookGenres[resp.book_id] = {}) => resp.books = <<>>

\* C14 witness: the source book itself would have ranked first in a
\* non-empty list of similar books
C14_Witness ==
  /\ resp.op = "similar"
  /\ resp.book_id \in Books
  /\ Len(resp.books) >= 1
  /\ avgRating[resp.book_id] > avgRating[resp.books[1]]

\* C18: every book get_trending_books returns has at least
\* min_reviews_in_period reviews created within the last days_back days,
\* whatever its total_reviews and average_rating.
C18_TrendingNeedsRecentReviews ==
  resp.op = "trending" =>
    \A i \in 1..Len(resp.books) :
      Cardinality({u \in Users :
                     /\ reviews[u][resp.books[i]] # 0
                     /\ reviewedAt[u][resp.books[i]] >= Now - resp.days_back})
        >= resp.min_reviews_in_period

\* C18 witness: a trending list that leaves out a book with more reviews and
\* a higher rating, while the book it returns also has a review too old to count
C18_Witness ==
  /\ resp.op = "trending"
  /\ Len(resp.books) = 1
  /\ \E u \in Users : /\ reviews[u][resp.books[1]] # 0
                      /\ reviewedAt[u][resp.books[1]] < Now - resp.days_back
  /\ \E b \in Books \ Range(resp.books) :
       /\ totalReviews[b] > totalReviews[resp.books[1]]
       /\ avgRating[b] > avgRating[resp.books[1]]


C19_CapWitness ==
  /\ resp.op = "profile"
  /\ Len(resp.favorite_genres) = 5
  /\ \E g \in UNION {bookGenres[b] : b \in Books} :
       /\ g \notin Range(resp.favorite_genres)
       /\ \E b \in Books : reviews[resp.user][b] >= 4 /\ g \in bookGenres[b]


\* C15: whatever the two users' ratings, get_user_similarity_score returns a
\* value in the closed interval [0, 1].
C15_SimilarityInUnitInterval ==
  resp.op = "similarity" =>
    (~FloatLess(resp.score, 0) /\ ~FloatGreater(resp.score, 1))

\* C16: the score is exactly 0.0 when the users have fewer than 2 commonly
\* reviewed books, and when the ratings of either user over the common books
\* are all equal; with exactly 2 common books and different ratings in both
\* vectors the correlation is computed: the score comes from the last return
\* statement and is 1 when both users rank the two books the same way and 0
\* when they rank them in opposite ways.
C16_SimilarityZeroCases ==
  resp.op = "similarity" =>
    LET u1 == resp.user1
        u2 == resp.user2
        common == {b \in DOMAIN reviews[u1] : reviews[u1][b] # 0 /\ reviews[u2][b] # 0}
        Flat(u) == \A b, c \in common : reviews[u][b] = reviews[u][c]
        SameWay == \E b, c \in common :
                     reviews[u1][b] < reviews[u1][c] /\ reviews[u2][b] < reviews[u2][c]
    IN /\ Cardinality(common) < 2 => resp.score = <<0, 0>>
       /\ (Flat(u1) \/ Flat(u2)) => resp.score = <<0, 0>>
       /\ (Cardinality(common) = 2 /\ ~Flat(u1) /\ ~Flat(u2)) =>
            /\ resp.returned_at = "correlation"
            /\ SameWay => (resp.score[1] = Pow(2, 0 - resp.score[2]))
            /\ ~SameWay => resp.score = <<0, 0>>

\* C16 witness: two users with exactly two common books, rated differently by
\* each and ranked the same way, get the score 1 from the correlation
C16_Witness ==
  /\ resp.op = "similarity"
  /\ resp.user1 # resp.user2
  /\ Cardinality({b \in DOMAIN reviews[resp.user1] :
                    reviews[resp.user1][b] # 0 /\ reviews[resp.user2][b] # 0}) = 2
  /\ resp.returned_at = "correlation"
  /\ resp.score # <<0, 0>>


C21_OnePerUserAndBook ==
  [][/\ resp'.op = "create_review" =>
          IF reviews[resp'.user][resp'.book] # 0
          THEN resp'.status = 400 /\ UNCHANGED <<store, limiter, sessions>>
          ELSE /\ resp'.status = 201
               /\ ReviewRows(reviews') = ReviewRows(reviews) + 1
               /\ favorites' = favorites
     /\ resp'.op = "add_to_favorites" =>
          IF <<resp'.user, resp'.book>> \in favorites
          THEN resp'.status = 400 /\ UNCHANGED <<store, limiter, sessions>>
          ELSE /\ resp'.status = 201
               /\ Cardinality(favorites') = Cardinality(favorites) + 1
               /\ reviews' = reviews]_vars

\* C21 witness: a second create_review for a reviewed pair was answered 400
C21_Witness ==
  /\ resp.op = "create_review"
  /\ resp.status = 400
  /\ reviews[resp.user][resp.book] # 0

\* C21 witness for favorites: a second add_to_favorites was answered 400
C21_FavoriteWitness ==
  /\ resp.op = "add_to_favorites"
  /\ resp.status = 400
  /\ <<resp.user, resp.book>> \in favorites


\* C23: the list get_personal_recommendations returns never holds the same
\* book twice.
C23_NoBookTwice ==
  PersonalReturned =>
    \A i, j \in 1..Len(resp.result.books) :
      i # j => resp.result.books[i] # resp.result.books[j]


\* C27: for a user who has a review with rating >= 4 the profile has
\* has_activity true: get_personal_recommendations, when no step fails,
\* answers from the personal branch and not from the new-user branch.
C27_HighRatingMeansActivity ==
  (/\ PersonalForUser
   /\ resp.result.failed = {}
   /\ \E b \in Books : reviews[resp.user][b] >= 4) =>
    /\ "excluded" \in Range(resp.result.steps)
    /\ resp.result.type = "personal"


\* C26: update_review and delete_review answer 404 for a review id that names
\* no stored review and 403 when the caller is not the review's author, and in
\* both cases leave the reviews and every book's average_rating and
\* total_reviews as they were.
C26_OnlyAuthorMutates ==
  [][resp'.op \in {"update_review", "delete_review"} =>
       /\ reviews[resp'.author][resp'.book] = 0 =>
            (resp'.status = 404 /\ UNCHANGED <<store, limiter, sessions>>)
       /\ (reviews[resp'.author][resp'.book] # 0 /\ resp'.caller # resp'.author) =>
            (resp'.status = 403 /\ UNCHANGED <<store, limiter, sessions>>)
       /\ resp'.status \in {403, 404} =>
            (reviews' = reviews /\ avgRating' = avgRating /\ totalReviews' = totalReviews)]_vars

\* C26 witness: another user's update of a stored review was answered 403
C26_Witness ==
  /\ resp.op = "update_review"
  /\ resp.status = 403
  /\ resp.caller # resp.author
  /\ reviews[resp.author][resp.book] # 0

\* C26 witness for delete_review: a delete of an unknown review was answered
\* 404 while the book has reviews
C26_DeleteWitness ==
  /\ resp.op = "delete_review"
  /\ resp.status = 404
  /\ totalReviews[resp.book] >= 1


\* C30: get_user_similarity_score is symmetric: on the same reviews the call
\* with the two users exchanged returns the same value.
C30_SimilaritySymmetric ==
  resp.op = "similarity" =>
    GetUserSimilarityScore(reviews, resp.user2, resp.user1).score = resp.score

\* C30 witness: a correlation score strictly between 0 and 1 for two users
\* whose ratings of the common books differ
C30_Witness ==
  /\ resp.op = "similarity"
  /\ resp.user1 # resp.user2
  /\ resp.returned_at = "correlation"
  /\ FloatGreater(resp.score, 0)
  /\ FloatLess(resp.score, 1)
  /\ \E b \in DOMAIN reviews[resp.user1] :
       /\ reviews[resp.user1][b] # 0
       /\ reviews[resp.user2][b] # 0
       /\ reviews[resp.user1][b] # reviews[resp.user2][b]


\* C25: every book _get_collaborative_recommendations returns is absent from
\* excluded_books and has a review with rating >= 4 from at least 2 of the
\* neighbours used; the neighbours used are at most 10 users other than the
\* requesting user who each reviewed at least 2 of the books that user
\* reviewed; the result is empty when the user has no reviews or no user
\* qualifies as a neighbour.
C25_CollaborativeEndorsed ==
  resp.op = "collaborative" =>
    LET u == resp.user
        mine == {b \in Books : reviews[u][b] # 0}
        neighbours == {v \in (DOMAIN reviews) \ {u} :
                         Cardinality({b \in mine : reviews[v][b] # 0}) >= 2}
    IN /\ resp.similar_users \subseteq neighbours
       /\ Cardinality(resp.similar_users) <= 10
       /\ \A i \in 1..Len(resp.books) :
            /\ resp.books[i] \notin resp.excluded_books
            /\ Cardinality({v \in resp.similar_users : reviews[v][resp.books[i]] >= 4}) >= 2
       /\ (mine = {} \/ neighbours = {}) => resp.books = <<>>

\* C25 witness: a book was returned while another book that two of the
\* neighbours used rated >= 4 was kept out by excluded_books, and a user who
\* rated the returned book 5 was not a neighbour
C25_Witness ==
  /\ resp.op = "collaborative"
  /\ Len(resp.books) >= 1
  /\ \E b \in resp.excluded_books :
       Cardinality({v \in resp.similar_users : reviews[v][b] >= 4}) >= 2
  /\ \E v \in (DOMAIN reviews) \ (resp.similar_users \cup {resp.user}) :
       \E i \in 1..Len(resp.books) : reviews[v][resp.books[i]] = 5

\* C25 witness of the cap: more than 10 users qualify and a book that two of
\* them rated >= 4 is not returned, though not excluded and the list is empty
C25_CapWitness ==
  /\ resp.op = "collaborative"
  /\ Cardinality(resp.similar_users) = 10
  /\ resp.books = <<>>
  /\ \E b \in Books \ resp.excluded_books :
       Cardinality({v \in (DOMAIN reviews) \ {resp.user} :
                      /\ Cardinality({c \in Books : reviews[resp.user][c] # 0
                                                    /\ reviews[v][c] # 0}) >= 2
                      /\ reviews[v][b] >= 4}) >= 2


\* the requests of `identifier` let through within the last window_seconds
GrantedWithin(g, identifier, window_seconds) ==
  Cardinality({i \in 1..Len(g[identifier].times) :
                 g[identifier].times[i][1] <= window_seconds})

\* C22: for an identifier called with a fixed limit L and window W, never more
\* than L of the calls let through lie within W seconds of each other: a call
\* is allowed exactly when fewer than L allowed calls lie within the last W
\* seconds, the k-th allowed call of a window returns remaining L - k (L - 1
\* down to 0 from an empty window), and a call on a full window is denied
\* with remaining 0.
C22_AtMostLimitPerWindow ==
  [][(resp.op = "none" /\ resp'.op = "is_allowed") =>
       LET L == resp'.limit
           before == GrantedWithin(granted, resp'.identifier, resp'.window_seconds)
           after == GrantedWithin(granted', resp'.identifier, resp'.window_seconds)
       IN /\ after <= L
          /\ IF before < L
             THEN resp'.allowed /\ resp'.remaining = L - (before + 1) /\ after = before + 1
             ELSE ~resp'.allowed /\ resp'.remaining = 0 /\ after = before]_vars

\* C22 witness: a limit of at least 2 was used up, the last allowed call
\* having returned remaining 0, and the next call in the window was denied
C22_Witness ==
  /\ resp.op = "is_allowed"
  /\ ~resp.allowed
  /\ resp.remaining = 0
  /\ resp.limit >= 2
  /\ GrantedWithin(granted, resp.identifier, resp.window_seconds) = resp.limit

\* C29: a call is denied only while limit recorded requests lie within the
\* last window_seconds, a denied call records nothing (the deque is left as
\* the expiry loop leaves it), and a client that was denied and keeps calling
\* is allowed again.
C29_DeniedThenAllowed ==
  /\ [][(resp.op = "none" /\ resp'.op = "is_allowed") =>
          LET id == resp'.identifier
              inWindow == {i \in 1..Len(requests[id]) :
                             requests[id][i] <= resp'.window_seconds}
          IN /\ resp'.allowed <=> Cardinality(inWindow) < resp'.limit
             /\ ~resp'.allowed =>
                  /\ requests'[id] = [i \in 1..Cardinality(inWindow) |->
                                        requests[id][i + Len(requests[id]) - Cardinality(inWindow)]]
                  /\ granted'[id].times = granted[id].times]_vars
  /\ \A id \in LimiterIds :
       (resp.op = "is_allowed" /\ resp.identifier = id /\ ~resp.allowed)
         ~> (resp.op = "is_allowed" /\ resp.identifier = id /\ resp.allowed)

\* C29 witness: a call was allowed after several denied calls, on a window
\* that this call filled again
C29_Witness ==
  /\ resp.op = "is_allowed"
  /\ resp.allowed
  /\ resp.denied_before = ManyDenied
  /\ resp.remaining = 0


\* the requests that `client` sent for `path` within the last window_seconds,
\* counted up to the endpoint's limit
SeenWithin(client, path) ==
  LET times == granted[SeenIdentifier(ClientIdentifier(client), path)].times
  IN Cardinality({i \in 1..Len(times) : times[i][1] <= WindowSeconds})

\* C28: a request for an endpoint with its own limit is rejected with
\* RATE_LIMIT_EXCEEDED only when the same client already sent at least that
\* limit of requests for the same endpoint within the window; requests for
\* other endpoints never make it rejected.
C28_JudgedPerEndpoint ==
  [][(resp.op = "none" /\ resp'.op = "dispatch"
      /\ resp'.code = "RATE_LIMIT_EXCEEDED"
      /\ resp'.path \in DOMAIN EndpointLimits)
       => SeenWithin(resp'.client, resp'.path) >= EndpointLimits[resp'.path]]_vars


\* no request about book b is between its first commit and its last
Settled(b) ==
  \A u \in DOMAIN sessions : sessions[u].book = b => sessions[u].pc = "done"

\* C24: once the review mutations on a book have completed, the book's
\* total_reviews and average_rating are the count and the rounded mean of
\* the reviews stored for it, however the statements of two concurrent
\* mutations were interleaved.
C24_AggregatesAfterConcurrentMutations ==
  \A b \in Books :
    Settled(b) =>
      /\ totalReviews[b] = NewTotalReviews(reviews, b)
      /\ avgRating[b] = NewAverageRating(reviews, b)

====
